---- MODULE Spec2Model ----
(***************************************************************************)
(* Whaleback daily analysis engine: AnalysisComputer.run and the pieces it *)
(* drives (per-ticker pipeline, news stage, simulation pool, cross-ticker  *)
(* passes, composite synthesis, persister, session commit/rollback).       *)
(***************************************************************************)
EXTENDS Integers, Sequences, FiniteSets, TLC

(***************************************************************************)
(* Universe and program constants                                          *)
(***************************************************************************)

\* Rows of the stocks table that the model draws its universe from.
Tickers == {"005930", "000660"}

\* simulation.py MIN_HISTORY_DAYS / Settings.simulation_min_history_days
MIN_HISTORY_DAYS == 60

\* _persist_snapshots BATCH_SIZE (1000 in the source), scaled to the universe
BATCH_SIZE == 1

\* the target_date argument of run(); both runs of a behaviour use it
TargetDate == "D"

\* the six per-ticker axes in the order the pipeline computes them
PipelineAxes == <<"quant", "whale", "trend", "flow", "technical", "risk">>

\* the order in which run() hands the categories to the persister
PersistOrder ==
    <<"quant", "whale", "trend", "flow", "technical", "risk", "composite",
      "simulation", "sector_flow", "news_sentiment", "news_articles">>

Categories == {PersistOrder[k] : k \in 1..Len(PersistOrder)}

\* sector_flow.py WHALE_TYPES
WHALE_TYPES ==
    {"institution_net", "foreign_net", "pension_net", "private_equity_net",
     "other_corp_net"}

\* sector_mapping table (reference dictionary, never updated mid-run)
SectorOf(t) == IF t = "005930" THEN "IT" ELSE "CHEM"

(***************************************************************************)
(* Generic helpers                                                         *)
(***************************************************************************)

Range(s) == {s[k] : k \in 1..Len(s)}

Min(a, b) == IF a < b THEN a ELSE b

\* all orderings of a finite set as sequences without repetition
Perms(S) ==
    {s \in [1..Cardinality(S) -> S] : \A a, b \in 1..Cardinality(S) : a # b => s[a] # s[b]}

\* rows[i : j] of Python slicing, 0-based half-open, clipped to the length
Slice(s, lo, hi) == SubSeq(s, lo + 1, Min(hi, Len(s)))

Keys(rs) == {r.key : r \in rs}

(***************************************************************************)
(* Input store: what the loader reads for one run                          *)
(***************************************************************************)

\* where, in the per-ticker try block, this ticker's data makes the code raise
Faults == {"none", "quant", "whale", "trend", "flow", "technical", "risk", "investor"}

\* price windows the daily_ohlcv table can hold for a ticker
PriceIds == {"short", "dirty", "flat", "ok"}

\* closes of the 400-day window, oldest first
PriceSeries(id) ==
    CASE id = "short" -> [k \in 1..(MIN_HISTORY_DAYS - 1) |-> 100 + k]
      [] id = "dirty" -> [k \in 1..MIN_HISTORY_DAYS |-> IF k = 7 THEN 0 ELSE 100 + k]
      [] id = "flat"  -> [k \in 1..MIN_HISTORY_DAYS |-> 100]
      [] OTHER        -> [k \in 1..MIN_HISTORY_DAYS |-> 100 + (k % 5)]

\* outcome of collect_news_for_ticker + scoring for a ticker
NewsKinds == {"off", "raise", "none", "few", "active"}

\* a ticker whose stocks row has is_active = FALSE: the engine never reads its data
InactiveRec ==
    [active |-> FALSE, fault |-> "none", fund |-> FALSE, inv |-> FALSE,
     px |-> "short", news |-> "off", ver |-> 1]

\* fund: a fundamentals row exists at the target date; inv: investor_trading rows
\* exist in the lookback window; ver: the revision of the stored series
TickerRecs(F, D, P, N, V) ==
    {InactiveRec} \cup
    [active : {TRUE}, fault : F, fund : D, inv : D, px : P, news : N, ver : V]

InpSpace(F, D, P, N, V) == [Tickers -> TickerRecs(F, D, P, N, V)]

(***************************************************************************)
(* Exceptions: which handler encloses each raise site of run()             *)
(***************************************************************************)

\* variant: the per-ticker try block has no handler
ExceptHandlerPipelineUnhandled(site) ==
    CASE site = "news_collect" -> "continue"
      [] site = "sim_worker"   -> "continue"
      [] site = "composite"    -> "continue"
      [] OTHER                 -> "propagate"

\* variant: the persister catches the error of a batch and goes on
ExceptHandlerPersistSwallows(site) ==
    CASE site = "pipeline"     -> "continue"
      [] site = "news_collect" -> "continue"
      [] site = "sim_worker"   -> "continue"
      [] site = "composite"    -> "continue"
      [] site = "persist"      -> "continue"
      [] OTHER                 -> "propagate"

\* "continue": warning logged, the loop goes on; "propagate": no handler in
\* run(), the exception leaves the with-block of get_session
ExceptHandler(site) ==
    CASE site = "pipeline"     -> "continue"
      [] site = "news_collect" -> "continue"
      [] site = "sim_worker"   -> "continue"
      [] site = "composite"    -> "continue"
      [] site = "persist"      -> "propagate"
      [] OTHER                 -> "propagate"

(***************************************************************************)
(* Session (get_session): one transaction per run                          *)
(***************************************************************************)

EmptyTables == [c \in Categories |-> {}]

\* session.commit(): the transaction's tables become the stored tables
Commit(stored, pending) == pending

\* variant: the except branch keeps what the transaction wrote
RollbackKeepsWrites(stored, pending) == pending

\* session.rollback(): the transaction's writes are discarded
Rollback(stored, pending) == stored

(***************************************************************************)
(* Persister                                                               *)
(***************************************************************************)

\* variant: on conflict do nothing
UpsertDoNothing(table, batch, now) ==
    LET incoming == Range(batch)
        fresh == {r \in incoming :
                    ~\E s \in table : s.date = r.date /\ s.key = r.key}
    IN table \cup {[date |-> r.date, key |-> r.key, val |-> r.val, at |-> now] : r \in fresh}

\* insert ... on conflict (pk) do update set <update_cols> = excluded.<col>:
\* a stored row with the same key takes the incoming values and keeps its
\* computed_at (computed_at is not among update_cols); a new key is inserted
\* with computed_at = now()
Upsert(table, batch, now) ==
    LET incoming == Range(batch)
        inKeys == {<<r.date, r.key>> : r \in incoming}
        kept == {s \in table : <<s.date, s.key>> \notin inKeys}
        written ==
            {[date |-> r.date, key |-> r.key, val |-> r.val,
              at |-> IF \E s \in table : s.date = r.date /\ s.key = r.key
                     THEN (CHOOSE s \in table : s.date = r.date /\ s.key = r.key).at
                     ELSE now] : r \in incoming}
    IN kept \cup written

\* the start offsets i of "for i in range(0, len(rows), BATCH_SIZE)"
BatchStarts(n) == {k \in 0..(n - 1) : k % BATCH_SIZE = 0}

NumBatches(n) == Cardinality(BatchStarts(n))

\* the b-th batch (1-based) rows[i : i + BATCH_SIZE]
Batch(rs, b) == Slice(rs, (b - 1) * BATCH_SIZE, (b - 1) * BATCH_SIZE + BATCH_SIZE)

\* variant: session.execute sits after the loop, only the last statement runs
UpsertBatchesLastOnly(table, rs, n, now) ==
    IF n = 0 THEN table ELSE Upsert(table, Batch(rs, n), now)

\* the table after the first n batches of rs have been executed
RECURSIVE UpsertBatches(_, _, _, _)
UpsertBatches(table, rs, n, now) ==
    IF n = 0 THEN table
    ELSE Upsert(UpsertBatches(table, rs, n - 1, now), Batch(rs, n), now)

\* the running total after n batches ("total += len(batch)")
RECURSIVE BatchTotal(_, _)
BatchTotal(rs, n) == IF n = 0 THEN 0 ELSE BatchTotal(rs, n - 1) + Len(Batch(rs, n))

(***************************************************************************)
(* Simulation: run_monte_carlo and its pool worker                         *)
(***************************************************************************)

\* SimModel enum, in definition order: tuple(SimModel)
ALL_MODELS == <<"gbm", "garch", "heston", "merton">>

\* stand-in for the 2**63 residue space of the SHA-256 seed
SeedSpace == 101

\* paths per model (Settings.simulation_num_paths is 10000), scaled
NumPaths == 2

\* byte strings that are hashed: the ticker code, ":" and the model value
TickerBytes(t) ==
    CASE t = "005930" -> <<0, 0, 5, 9, 3, 0>>
      [] t = "000660" -> <<0, 0, 0, 6, 6, 0>>
      [] OTHER        -> << >>

ModelBytes(m) ==
    CASE m = "gbm"    -> <<7, 2, 13>>
      [] m = "garch"  -> <<7, 1, 18, 3, 8>>
      [] m = "heston" -> <<8, 5, 19, 20, 15, 14>>
      [] OTHER        -> <<13, 5, 18, 20, 15, 14>>

ColonByte == 58

\* int(hashlib.sha256(bytes).hexdigest(), 16) % 2**63: a fixed function of
\* the byte string, here a polynomial digest reduced to the seed space
RECURSIVE Sha256Int(_)
Sha256Int(bytes) ==
    IF Len(bytes) = 0 THEN 7
    ELSE (Sha256Int(SubSeq(bytes, 1, Len(bytes) - 1)) * 31 + bytes[Len(bytes)] + 1) % SeedSpace

\* the k-th value a generator built by default_rng(seed) hands out
RECURSIVE Draw(_, _)
Draw(seed, k) ==
    IF k = 0 THEN seed % SeedSpace ELSE (Draw(seed, k - 1) * 17 + 43) % SeedSpace

\* f"{ticker}:{model.value}".encode()
SeedBytes(ticker, m) == TickerBytes(ticker) \o <<ColonByte>> \o ModelBytes(m)

\* variant: every model seed is drawn from the parent generator, itself
\* seeded from the ticker
ModelSeedFromParent(ticker, m, pos, entropy) ==
    IF ticker # "" THEN Draw(Sha256Int(TickerBytes(ticker)), pos) ELSE Draw(entropy, pos)

\* the seed of the model's child generator: keyed on (ticker, model) when a
\* ticker is given, otherwise the pos-th draw of the parent generator, which
\* default_rng(None) seeded from OS entropy
ModelSeed(ticker, m, pos, entropy) ==
    IF ticker # "" THEN Sha256Int(SeedBytes(ticker, m)) ELSE Draw(entropy, pos)

\* the terminal-price array a model computes from its generator: path j uses
\* the generator's j-th draw, scaled by the model's own step rule
ModelStep(m) ==
    CASE m = "gbm" -> 1 [] m = "garch" -> 2 [] m = "heston" -> 3 [] OTHER -> 4

TerminalPrices(m, seed, base) ==
    [j \in 1..NumPaths |-> base + ModelStep(m) * Draw(seed, j)]

\* [p for p in prices if p is not None and isfinite(p) and p > 0]
CleanPrices(prices) == SelectSeq(prices, LAMBDA p : p > 0)

\* np.all(np.diff(np.log(clean)) == 0): every close equals its predecessor
AllReturnsZero(clean) == \A k \in 1..(Len(clean) - 1) : clean[k + 1] = clean[k]

None == [kind |-> "none"]

Raised == [kind |-> "raise"]

\* run_monte_carlo: failing is the set of models whose simulate_* raises on
\* these returns; models is the tuple to run, in order
RunMonteCarlo(prices, ticker, models, failing, entropy) ==
    LET clean == CleanPrices(prices)
        ran == {k \in 1..Len(models) : models[k] \notin failing}
    IN IF Len(prices) < MIN_HISTORY_DAYS THEN None
       ELSE IF Len(clean) < MIN_HISTORY_DAYS THEN None
       ELSE IF Len(clean) < 2 \/ AllReturnsZero(clean) THEN None
       ELSE IF ran = {} THEN None
       ELSE [kind |-> "row",
             input_days_used |-> Len(clean),
             base_price |-> clean[Len(clean)],
             breakdown |-> Cardinality(ran) > 1,
             terminal |->
                {<<models[k],
                   TerminalPrices(models[k],
                                  ModelSeed(ticker, models[k], k, entropy),
                                  clean[Len(clean)])>> : k \in ran}]

\* parameter names in the signature of run_monte_carlo
RunMonteCarloParams ==
    {"prices", "num_simulations", "horizons", "target_multipliers", "ticker",
     "models", "weights", "garch_params", "heston_params", "merton_params",
     "max_sigma"}

\* argument names _run_simulation_worker binds in its call of run_monte_carlo
WorkerCallArgs ==
    {"prices", "num_simulations", "ticker", "models", "weights",
     "garch_params", "heston_params", "merton_params", "max_sigma",
     "sentiment_adjustments"}

\* _run_simulation_worker: Python raises TypeError when a keyword of the call
\* is not a parameter of the callee; otherwise the payload or None
RunSimulationWorker(ticker, prices, failing) ==
    IF ~(WorkerCallArgs \subseteq RunMonteCarloParams) THEN Raised
    ELSE RunMonteCarlo(prices, ticker, ALL_MODELS, failing, 0)

(***************************************************************************)
(* State of AnalysisComputer.run                                           *)
(***************************************************************************)

VARIABLES
    inp,              \* the input store read by this run, per ticker
    newsEnabled,      \* settings.news_sentiment_enabled
    run,              \* 1 for the first run on the target date, 2 for the re-run
    pc,               \* position inside run()
    comp,             \* component (spec section 2) that performed the last step
    tickers,          \* the dict returned by _get_active_tickers, in its order
    idx,              \* index of the per-ticker loop
    rows,             \* the *_rows lists, per category
    investorAcc,      \* keys of investor_data_acc
    sentimentLookup,  \* keys of sentiment_lookup / sentiment_adj_lookup
    tickerPrices,     \* keys of ticker_prices, in insertion order
    futures,          \* submitted futures not yet yielded by as_completed
    simDone,          \* tickers in the order as_completed yielded them
    warnings,         \* logger.warning calls: <<site, ticker>>
    cat,              \* index into PersistOrder of the next category
    counts,           \* the *_count locals
    txn,              \* the tables as the session's open transaction sees them
    store,            \* the committed tables
    summary,          \* the dict run() returned, or NoSummary
    dbError,          \* a session.execute of the persister raised in this run
    startStore,       \* the committed tables when this run began
    prev,             \* what the previous run read, produced and left behind
    mcSeen,           \* terminal arrays of earlier run_monte_carlo calls
    mcLast,           \* the latest direct run_monte_carlo call and its result
    fetch,            \* collect_news_for_ticker: position and locals of its two fetches
    llm,              \* score_articles: position and locals of its LLM stage
    kcall,            \* the latest direct call of an analysis kernel and its result
    gather,           \* the news stage's asyncio.gather: semaphore, tasks, clock
    bert,             \* news_scorer's module globals and the callers of _get_bert_pipeline
    coll              \* BaseCollector.run: position, session and collection-log row

engineVars ==
    <<inp, newsEnabled, run, pc, comp, tickers, idx, rows, investorAcc,
      sentimentLookup, tickerPrices, futures, simDone, warnings, cat, counts,
      txn, store, summary, dbError, startStore, prev>>

mcVars == <<mcSeen, mcLast>>

auxVars == <<fetch, llm, kcall>>

sideVars == <<gather, bert, coll>>

vars == <<engineVars, mcVars, auxVars, sideVars>>

NoSummary == [kind |-> "none"]

NoPrev == [kind |-> "none"]

EmptyRows == [c \in Categories |-> << >>]

ZeroCounts == [c \in Categories |-> 0]

ActiveSet(input) == {t \in Tickers : input[t].active}

\* variant: rows are dated with the day the engine runs, not target_date
RowDatedToday(t, v) ==
    [date |-> IF run = 1 THEN TargetDate ELSE "D+1", key |-> t, val |-> v]

\* {"trade_date": target_date, "ticker": ticker, **result}
Row(t, v) == [date |-> TargetDate, key |-> t, val |-> v]

\* position of the raise inside the try block: 1..6 the axes, 7 the investor
\* load, 8 no raise
FaultIndex(f) ==
    CASE f = "quant" -> 1 [] f = "whale" -> 2 [] f = "trend" -> 3
      [] f = "flow" -> 4 [] f = "technical" -> 5 [] f = "risk" -> 6
      [] f = "investor" -> 7 [] OTHER -> 8

\* whether _compute_<axis> returns a result rather than None
AxisHasData(axis, rec) ==
    CASE axis = "quant"     -> rec.fund
      [] axis = "whale"     -> rec.inv
      [] axis = "flow"      -> rec.inv
      [] axis = "trend"     -> Len(PriceSeries(rec.px)) >= 5
      [] axis = "technical" -> Len(PriceSeries(rec.px)) >= 20
      [] OTHER              -> Len(PriceSeries(rec.px)) >= 20

\* the non-key columns an axis computes from the ticker's stored series
AxisVal(axis, rec) ==
    IF axis = "trend" THEN [rs |-> 10 * rec.ver, pct |-> -1] ELSE [v |-> rec.ver]

AxisPos(axis) == CHOOSE k \in 1..Len(PipelineAxes) : PipelineAxes[k] = axis

\* each axis in a try block of its own: only the raising axis appends nothing
PipelineAppendsPerAxis(c, t, rec) ==
    IF /\ c \in Range(PipelineAxes)
       /\ c # rec.fault
       /\ AxisHasData(c, rec)
    THEN <<Row(t, AxisVal(c, rec))>>
    ELSE << >>

\* the rows one pass of the try block appends for ticker t
PipelineAppends(c, t, rec) ==
    IF /\ c \in Range(PipelineAxes)
       /\ AxisPos(c) < FaultIndex(rec.fault)
       /\ AxisHasData(c, rec)
    THEN <<Row(t, AxisVal(c, rec))>>
    ELSE << >>

\* the frame every step leaves alone
Frame(changed) ==
    /\ UNCHANGED mcVars
    /\ UNCHANGED <<auxVars, sideVars>>
    /\ UNCHANGED <<inp, newsEnabled, run, startStore, prev>>
    /\ (IF "tickers" \in changed THEN TRUE ELSE UNCHANGED tickers)
    /\ (IF "idx" \in changed THEN TRUE ELSE UNCHANGED idx)
    /\ (IF "rows" \in changed THEN TRUE ELSE UNCHANGED rows)
    /\ (IF "investorAcc" \in changed THEN TRUE ELSE UNCHANGED investorAcc)
    /\ (IF "sentimentLookup" \in changed THEN TRUE ELSE UNCHANGED sentimentLookup)
    /\ (IF "tickerPrices" \in changed THEN TRUE ELSE UNCHANGED tickerPrices)
    /\ (IF "futures" \in changed THEN TRUE ELSE UNCHANGED futures)
    /\ (IF "simDone" \in changed THEN TRUE ELSE UNCHANGED simDone)
    /\ (IF "warnings" \in changed THEN TRUE ELSE UNCHANGED warnings)
    /\ (IF "cat" \in changed THEN TRUE ELSE UNCHANGED cat)
    /\ (IF "counts" \in changed THEN TRUE ELSE UNCHANGED counts)
    /\ (IF "txn" \in changed THEN TRUE ELSE UNCHANGED txn)
    /\ (IF "store" \in changed THEN TRUE ELSE UNCHANGED store)
    /\ (IF "summary" \in changed THEN TRUE ELSE UNCHANGED summary)
    /\ (IF "dbError" \in changed THEN TRUE ELSE UNCHANGED dbError)

\* an exception leaves run(): get_session rolls back and re-raises
Abort(pending) ==
    /\ pc' = "failed"
    /\ store' = Rollback(store, pending)
    /\ txn' = Rollback(store, pending)
    /\ summary' = NoSummary

\* the dict of the early return taken when no ticker is active
EarlySummary ==
    [k \in {"quant", "whale", "trend", "flow", "technical", "risk", "composite",
            "news_sentiment"} |-> 0]

\* the dict of the final return
FinalSummary(cnt) ==
    [k \in {"quant", "whale", "trend", "flow", "technical", "risk", "composite",
            "simulation", "sector_flow", "news_sentiment"} |-> cnt[k]]

(***************************************************************************)
(* Steps of run()                                                          *)
(***************************************************************************)

\* loader: active tickers (in the order the query returns them), sector
\* medians, sector map, index prices; early return when nothing is active
LoadUniverse ==
    /\ pc = "start"
    /\ comp' = "loader"
    /\ \E order \in Perms(ActiveSet(inp)) :
          /\ tickers' = order
          /\ IF Len(order) = 0
             THEN /\ summary' = EarlySummary
                  /\ store' = Commit(store, txn)
                  /\ pc' = "done"
                  /\ UNCHANGED idx
             ELSE /\ pc' = "pipeline"
                  /\ idx' = 1
                  /\ UNCHANGED <<summary, store>>
    /\ Frame({"tickers", "idx", "summary", "store"})

\* one iteration of the per-ticker loop: the whole try block and its handler
PipelineTicker ==
    /\ pc = "pipeline"
    /\ comp' = "pipeline"
    /\ LET t == tickers[idx]
           rec == inp[t]
           raised == rec.fault # "none"
       IN /\ rows' = [c \in Categories |-> rows[c] \o PipelineAppends(c, t, rec)]
          /\ investorAcc' =
                IF FaultIndex(rec.fault) > 7 /\ rec.inv
                THEN investorAcc \cup {t} ELSE investorAcc
          /\ IF raised /\ ExceptHandler("pipeline") = "propagate"
             THEN /\ Abort(txn)
                  /\ UNCHANGED <<warnings, idx>>
             ELSE /\ warnings' =
                        IF raised THEN warnings \cup {<<"pipeline", t>>} ELSE warnings
                  /\ idx' = idx + 1
                  /\ pc' = IF idx = Len(tickers) THEN "news" ELSE "pipeline"
                  /\ UNCHANGED <<store, txn, summary>>
    /\ Frame({"rows", "investorAcc", "warnings", "idx", "store", "txn", "summary"})

\* articles collect_news_for_ticker + score_articles yield for a ticker
ArticleCount(kind) ==
    CASE kind = "active" -> 2 [] kind = "few" -> 1 [] OTHER -> 0

ArticleRows(t, rec) ==
    [k \in 1..ArticleCount(rec.news) |->
        [date |-> "-", key |-> <<t, k>>, val |-> [v |-> rec.ver]]]

\* compute_sentiment_score(...).status: no_data for no article, insufficient
\* below news_min_articles, else active
NewsStatus(kind) ==
    CASE kind = "active" -> "active" [] kind = "few" -> "insufficient"
      [] OTHER -> "no_data"

RECURSIVE NewsSnapshotRows(_, _)
NewsSnapshotRows(ts, input) ==
    IF Len(ts) = 0 THEN << >>
    ELSE LET t == Head(ts)
             st == NewsStatus(input[t].news)
             here == IF st # "no_data"
                     THEN <<Row(t, [v |-> input[t].ver, status |-> st])>>
                     ELSE << >>
         IN here \o NewsSnapshotRows(Tail(ts), input)

RECURSIVE AllArticles(_, _)
AllArticles(ts, input) ==
    IF Len(ts) = 0 THEN << >>
    ELSE ArticleRows(Head(ts), input[Head(ts)]) \o AllArticles(Tail(ts), input)

\* news stage: _collect_and_score_news when enabled (gather with
\* return_exceptions=True, scoring, per-ticker sentiment)
NewsStage ==
    /\ pc = "news"
    /\ comp' = "news"
    /\ pc' = "sim_load"
    /\ IF newsEnabled
       THEN /\ rows' = [rows EXCEPT
                          !["news_sentiment"] = NewsSnapshotRows(tickers, inp),
                          !["news_articles"] = AllArticles(tickers, inp)]
            /\ sentimentLookup' =
                  {t \in Range(tickers) : NewsStatus(inp[t].news) = "active"}
            /\ warnings' = warnings \cup
                  {<<"news_collect", t>> : t \in {u \in Range(tickers) : inp[u].news = "raise"}}
       ELSE UNCHANGED <<rows, sentimentLookup, warnings>>
    /\ Frame({"rows", "sentimentLookup", "warnings"})

\* _compute_simulations_parallel, phase 1: read every ticker's closes of the
\* 400-day window and keep those with enough history
SimLoadPrices ==
    /\ pc = "sim_load"
    /\ comp' = "loader"
    /\ tickerPrices' =
          SelectSeq(tickers,
                    LAMBDA t : Len(PriceSeries(inp[t].px)) >= MIN_HISTORY_DAYS)
    /\ pc' = IF Len(tickerPrices') = 0 THEN "cross" ELSE "sim_submit"
    /\ Frame({"tickerPrices"})

\* phase 2: every ticker of ticker_prices is submitted to the pool
SimSubmit ==
    /\ pc = "sim_submit"
    /\ comp' = "simulation"
    /\ futures' = Range(tickerPrices)
    /\ pc' = "sim_collect"
    /\ Frame({"futures"})

\* variant: the collection loop stops after the first finished future
SimCollectFirstOnly ==
    /\ pc = "sim_collect"
    /\ comp' = "simulation"
    /\ \E t \in futures :
          /\ futures' = futures \ {t}
          /\ simDone' = Append(simDone, t)
          /\ warnings' =
                IF RunSimulationWorker(t, PriceSeries(inp[t].px), {}).kind = "raise"
                THEN warnings \cup {<<"sim_worker", t>>} ELSE warnings
          /\ pc' = "cross"
    /\ Frame({"futures", "simDone", "warnings"})

\* as_completed yields one finished future, in completion order
SimCollect ==
    /\ pc = "sim_collect"
    /\ comp' = "simulation"
    /\ \E t \in futures :
          LET res == RunSimulationWorker(t, PriceSeries(inp[t].px), {})
          IN /\ futures' = futures \ {t}
             /\ simDone' = Append(simDone, t)
             /\ IF res.kind = "raise" /\ ExceptHandler("sim_worker") = "propagate"
                THEN /\ Abort(txn)
                     /\ UNCHANGED <<rows, warnings>>
                ELSE /\ rows' =
                           IF res.kind = "row"
                           THEN [rows EXCEPT !["simulation"] =
                                    Append(@, Row(t, [days |-> res.input_days_used,
                                                      breakdown |-> res.breakdown]))]
                           ELSE rows
                     /\ warnings' =
                           IF res.kind = "raise"
                           THEN warnings \cup {<<"sim_worker", t>>} ELSE warnings
                     /\ pc' = IF futures' = {} THEN "cross" ELSE "sim_collect"
                     /\ UNCHANGED <<store, txn, summary>>
    /\ Frame({"futures", "simDone", "rows", "warnings", "store", "txn", "summary"})

(***************************************************************************)
(* Cross-ticker passes and composite                                       *)
(***************************************************************************)

\* Python round() of the exact quotient num / den: half goes to the even side
RoundHalfEven(num, den) ==
    LET q == num \div den
        r == num % den
    IN IF 2 * r > den THEN q + 1
       ELSE IF 2 * r < den THEN q
       ELSE IF q % 2 = 0 THEN q ELSE q + 1

\* int(below / len(valid) * 100) without rounding to the nearest integer
compute_rs_percentile_floor(rs, all) ==
    LET valid == SelectSeq(all, LAMBDA v : v >= 0)
        below == Cardinality({k \in 1..Len(valid) : valid[k] < rs})
    IN IF rs < 0 \/ valid = <<>> THEN -1
       ELSE Min((below * 100) \div Len(valid), 100)

\* compute_rs_percentile(ticker_rs, all_rs_values); a negative number stands
\* for None, as argument, as list entry and as result
compute_rs_percentile(rs, all) ==
    LET valid == SelectSeq(all, LAMBDA v : v >= 0)
        below == Cardinality({k \in 1..Len(valid) : valid[k] < rs})
    IN IF rs < 0 \/ valid = <<>> THEN -1
       ELSE Min(RoundHalfEven(below * 100, Len(valid)), 100)

\* each row ranked among the rows up to and including itself
FillPercentilesRunning(trendRows) ==
    [k \in 1..Len(trendRows) |->
        [trendRows[k] EXCEPT !.val.pct =
            compute_rs_percentile(trendRows[k].val.rs,
                                  [j \in 1..k |-> trendRows[j].val.rs])]]

\* "for row in trend_rows: row['rs_percentile'] = ..." over the non-null
\* 20-day RS values of all rows
FillPercentiles(trendRows) ==
    LET all == SelectSeq([k \in 1..Len(trendRows) |-> trendRows[k].val.rs],
                         LAMBDA v : v >= 0)
    IN [k \in 1..Len(trendRows) |->
          [trendRows[k] EXCEPT !.val.pct = compute_rs_percentile(trendRows[k].val.rs, all)]]

SectorSeq == <<"IT", "CHEM">>

WhaleTypeSeq ==
    <<"institution_net", "foreign_net", "pension_net", "private_equity_net",
      "other_corp_net">>

SectorMembers(sector, acc) == {t \in Tickers : SectorOf(t) = sector /\ t \in acc}

\* _classify_flow_signal on the sector's aggregated flows; the stored series
\* revision decides the aggregate
SectorSignal(sector, wt, acc, input) ==
    LET ms == SectorMembers(sector, acc)
    IN IF \E t \in ms : input[t].ver = 2
       THEN (IF wt = "institution_net" THEN "strong_accumulation"
             ELSE IF wt = "foreign_net" THEN "mild_accumulation" ELSE "neutral")
       ELSE "neutral"

SectorRowsOf(sector, acc, input) ==
    IF SectorMembers(sector, acc) = {} THEN << >>
    ELSE [k \in 1..Len(WhaleTypeSeq) |->
            [date |-> TargetDate, key |-> <<sector, WhaleTypeSeq[k]>>,
             val |-> [stock_count |-> Cardinality(SectorMembers(sector, acc)),
                      signal |-> SectorSignal(sector, WhaleTypeSeq[k], acc, input)]]]

\* compute_sector_flows: one row per (sector, investor type) of every sector
\* that has a ticker with accumulated investor data
compute_sector_flows(acc, input) ==
    SectorRowsOf(SectorSeq[1], acc, input) \o SectorRowsOf(SectorSeq[2], acc, input)

\* variant: the additions are summed without the cap
SectorFlowBonusUncapped(t, sfRows, n) ==
    LET of(sig) == {k \in 1..n : sfRows[k].val.signal = sig
                                 /\ SectorOf(t) = sfRows[k].key[1]}
    IN 15 * Cardinality(of("strong_accumulation"))
          + 5 * Cardinality(of("mild_accumulation"))

\* the sector_flow_bonus_lookup loop, applied to the first n sector-flow rows
RECURSIVE SectorFlowBonus(_, _, _)
SectorFlowBonus(t, sfRows, n) ==
    IF n = 0 THEN 0
    ELSE LET before == SectorFlowBonus(t, sfRows, n - 1)
             r == sfRows[n]
             add == IF r.val.signal = "strong_accumulation" THEN 15 ELSE 5
         IN IF /\ r.val.signal \in {"strong_accumulation", "mild_accumulation"}
               /\ SectorOf(t) = r.key[1]
            THEN Min(before + add, 15)
            ELSE before

\* RS percentiles, then sector-flow aggregation
CrossTicker ==
    /\ pc = "cross"
    /\ comp' = "cross"
    /\ rows' = [rows EXCEPT
                  !["trend"] = FillPercentiles(@),
                  !["sector_flow"] = compute_sector_flows(investorAcc, inp)]
    /\ pc' = "composite"
    /\ Frame({"rows"})

HasRow(rs, t) == \E k \in 1..Len(rs) : rs[k].key = t

RECURSIVE CompositeRows(_, _, _, _)
CompositeRows(ts, rws, lookup, input) ==
    IF Len(ts) = 0 THEN << >>
    ELSE LET t == Head(ts)
             q == HasRow(rws["quant"], t)
             w == HasRow(rws["whale"], t)
             tr == HasRow(rws["trend"], t)
             here ==
                IF ~(q \/ w \/ tr) THEN << >>
                ELSE <<Row(t, [q |-> q, w |-> w, tr |-> tr,
                               sim |-> HasRow(rws["simulation"], t),
                               sent |-> t \in lookup,
                               bonus |-> SectorFlowBonus(t, rws["sector_flow"],
                                                         Len(rws["sector_flow"])),
                               v |-> input[t].ver])>>
         IN here \o CompositeRows(Tail(ts), rws, lookup, input)

\* the composite loop over all tickers
Composite ==
    /\ pc = "composite"
    /\ comp' = "composite"
    /\ rows' = [rows EXCEPT
                  !["composite"] = CompositeRows(tickers, rows, sentimentLookup, inp)]
    /\ pc' = "persist"
    /\ cat' = 1
    /\ Frame({"rows", "cat"})

(***************************************************************************)
(* Persist phase, return, next run                                         *)
(***************************************************************************)

\* one call of the persister for the next category: every batch of the list,
\* or the batches before the one whose session.execute raises
PersistCategory ==
    /\ pc = "persist"
    /\ comp' = "persister"
    /\ LET c == PersistOrder[cat]
           rs == rows[c]
           nb == NumBatches(Len(rs))
       IN \E failAt \in 0..nb :
             IF failAt > 0 /\ ExceptHandler("persist") = "propagate"
             THEN /\ dbError' = TRUE
                  /\ Abort([txn EXCEPT ![c] = UpsertBatches(@, rs, failAt - 1, run)])
                  /\ UNCHANGED <<counts, cat>>
             ELSE LET done == IF failAt = 0 THEN rs
                              ELSE SubSeq(rs, 1, (failAt - 1) * BATCH_SIZE) \o
                                   SubSeq(rs, failAt * BATCH_SIZE + 1, Len(rs))
                  IN /\ dbError' = (dbError \/ failAt > 0)
                     /\ txn' = [txn EXCEPT ![c] =
                                   UpsertBatches(@, done, NumBatches(Len(done)), run)]
                     /\ counts' = [counts EXCEPT ![c] =
                                      BatchTotal(done, NumBatches(Len(done)))]
                     /\ cat' = cat + 1
                     /\ pc' = IF cat = Len(PersistOrder) THEN "return" ELSE "persist"
                     /\ UNCHANGED <<store, summary>>
    /\ Frame({"dbError", "txn", "store", "summary", "counts", "cat"})

\* the final return and the exit of the with-block: session.commit()
ReturnSummary ==
    /\ pc = "return"
    /\ comp' = "persister"
    /\ summary' = FinalSummary(counts)
    /\ store' = Commit(store, txn)
    /\ pc' = "done"
    /\ Frame({"summary", "store"})

\* after a completed run the engine is started a second time on the same
\* target date, reading nextInp
StartNextRun(nextInp) ==
    /\ pc = "done"
    /\ run = 1
    /\ prev' = [kind |-> "run", inp |-> inp, store |-> store]
    /\ run' = run + 1
    /\ inp' = nextInp
    /\ pc' = "start"
    /\ comp' = "none"
    /\ tickers' = << >>
    /\ idx' = 0
    /\ rows' = EmptyRows
    /\ investorAcc' = {}
    /\ sentimentLookup' = {}
    /\ tickerPrices' = << >>
    /\ futures' = {}
    /\ simDone' = << >>
    /\ warnings' = {}
    /\ cat' = 0
    /\ counts' = ZeroCounts
    /\ txn' = store
    /\ startStore' = store
    /\ summary' = NoSummary
    /\ dbError' = FALSE
    /\ UNCHANGED <<newsEnabled, store>>
    /\ UNCHANGED mcVars
    /\ UNCHANGED <<auxVars, sideVars>>

InitEngine(input, news) ==
    /\ inp = input
    /\ newsEnabled = news
    /\ run = 1
    /\ pc = "start"
    /\ comp = "none"
    /\ tickers = << >>
    /\ idx = 0
    /\ rows = EmptyRows
    /\ investorAcc = {}
    /\ sentimentLookup = {}
    /\ tickerPrices = << >>
    /\ futures = {}
    /\ simDone = << >>
    /\ warnings = {}
    /\ cat = 0
    /\ counts = ZeroCounts
    /\ txn = EmptyTables
    /\ store = EmptyTables
    /\ startStore = EmptyTables
    /\ summary = NoSummary
    /\ dbError = FALSE
    /\ prev = NoPrev

InitMc ==
    /\ mcSeen = {}
    /\ mcLast = [kind |-> "none"]

\* no fetch started, no scoring started, no kernel called
FetchIdle == [pc |-> "idle"]

LlmIdle == [pc |-> "idle"]

NoCall == [fn |-> "none"]

GatherIdle == [pc |-> "idle"]

\* _bert_pipeline = None and no scoring call made yet
BertUnloaded == [pipeline |-> 0, log |-> << >>]

\* the (collection_type, target_date) pairs followed
LogKeys == {"ohlcv", "investor"} \X {"D1", "D2"}

\* no collection_log row for a pair
NoLogRow == [status |-> "absent", records_count |-> 0, error_message |-> ""]

\* no collector run made yet: an empty collection_log
CollIdle ==
    [pc |-> "idle",
     committed |-> [key \in LogKeys |-> NoLogRow],
     last |-> [key |-> <<"ohlcv", "D1">>, outcome |-> "none", count |-> 0,
               error |-> ""]]

InitAux ==
    /\ fetch = FetchIdle
    /\ llm = LlmIdle
    /\ kcall = NoCall
    /\ gather = GatherIdle
    /\ bert = BertUnloaded
    /\ coll = CollIdle

\* with news disabled the news column of the input is never read
NewsOff(input) == \A t \in Tickers : input[t].news = "off"

NewsOn(input) == \A t \in Tickers : input[t].active => input[t].news # "off"

(***************************************************************************)
(* One run with every kind of per-ticker failure and database failure      *)
(***************************************************************************)

RunSpace == InpSpace(Faults, {TRUE}, {"short", "ok"}, {"off", "raise", "active"}, {1})

Init ==
    /\ \E input \in RunSpace, news \in BOOLEAN :
          /\ IF news THEN NewsOn(input) ELSE NewsOff(input)
          /\ InitEngine(input, news)
    /\ InitMc
    /\ InitAux

Next ==
    \/ LoadUniverse
    \/ PipelineTicker
    \/ NewsStage
    \/ SimLoadPrices
    \/ SimSubmit
    \/ SimCollect
    \/ CrossTicker
    \/ Composite
    \/ PersistCategory
    \/ ReturnSummary

Spec == Init /\ [][Next]_vars

(***************************************************************************)
(* Two runs on the same target date                                        *)
(***************************************************************************)

RerunSpace == InpSpace({"none", "quant"}, {TRUE}, {"ok"}, {"off", "active"}, {1, 2})

NewsConsistent(input, news) == IF news THEN NewsOn(input) ELSE NewsOff(input)

InitRerun ==
    /\ \E input \in RerunSpace, news \in BOOLEAN :
          /\ NewsConsistent(input, news)
          /\ InitEngine(input, news)
    /\ InitMc
    /\ InitAux

Rerun ==
    \E nextInp \in RerunSpace :
       /\ NewsConsistent(nextInp, newsEnabled)
       /\ StartNextRun(nextInp)

NextRerun ==
    \/ LoadUniverse
    \/ PipelineTicker
    \/ NewsStage
    \/ SimLoadPrices
    \/ SimSubmit
    \/ SimCollect
    \/ CrossTicker
    \/ Composite
    \/ PersistCategory
    \/ ReturnSummary
    \/ Rerun

SpecRerun == InitRerun /\ [][NextRerun]_vars

(***************************************************************************)
(* Direct calls of run_monte_carlo                                         *)
(***************************************************************************)

\* values the OS entropy behind default_rng(None) can take
EntropyValues == {3, 4}

\* the non-empty model tuples, in enum order
ModelTuples ==
    {SelectSeq(ALL_MODELS, LAMBDA m : m \in S) : S \in (SUBSET Range(ALL_MODELS)) \ {{}}}

\* one call run_monte_carlo(prices, ticker=..., models=...); the arrays of
\* the first call are kept and compared with those of a second call
CallRunMonteCarlo ==
    /\ (IF mcLast.kind = "none" THEN TRUE ELSE mcSeen = {mcLast})
    /\ \E ticker \in Tickers \cup {""}, models \in ModelTuples,
          failing \in {{}, {"garch"}}, entropy \in EntropyValues :
          LET res == RunMonteCarlo(PriceSeries("ok"), ticker, models, failing, entropy)
              call == [kind |-> "call", ticker |-> ticker, models |-> models,
                       terminal |-> IF res.kind = "row" THEN res.terminal ELSE {}]
          IN /\ mcLast' = call
             /\ mcSeen' = IF mcLast.kind = "none" THEN {call} ELSE mcSeen
    /\ UNCHANGED engineVars
    /\ UNCHANGED <<auxVars, sideVars>>

InitDirect ==
    /\ InitEngine([t \in Tickers |-> InactiveRec], FALSE)
    /\ InitMc
    /\ InitAux

NextDirect == CallRunMonteCarlo

SpecDirect == InitDirect /\ [][NextDirect]_vars

(***************************************************************************)
(* News collectors: fetch_naver_news, fetch_dart_disclosures,              *)
(* collect_news_for_ticker, followed by the per-ticker sentiment status    *)
(***************************************************************************)

\* max_retries of fetch_naver_news: the number of passes of its for loop
max_retries == 3

\* httpx.AsyncClient(timeout=...) of the two fetches, in seconds
NaverTimeout == 10

DartTimeout == 15

\* Settings.news_min_articles
news_min_articles == 2

\* the order in which the tickers' collections are followed
FetchOrder == <<"005930", "000660">>

\* an item of a Naver response: its link (item.get("originallink") or
\* item.get("link", ""), empty when the item carries neither) and what its
\* pubDate parses to ("bad": unparseable, "old": before the lookback window,
\* "recent")
NaverItem(url, pub) == [url |-> url, pub |-> pub, src |-> "naver"]

\* an entry of a DART list: the disclosure page of its receipt number
DartItem(no) == [url |-> no, pub |-> "recent", src |-> "dart"]

\* the item lists a successful search can return
NaverItemLists ==
    {<< >>,
     <<NaverItem("u1", "recent")>>,
     <<NaverItem("u1", "recent"), NaverItem("u2", "recent")>>,
     <<NaverItem("u1", "recent"), NaverItem("u1", "recent")>>,
     <<NaverItem("", "recent"), NaverItem("", "recent")>>,
     <<NaverItem("u1", "old"), NaverItem("u2", "bad")>>}

\* the lists a status-000 disclosure response can carry
DartItemLists ==
    {<< >>, <<DartItem("d1")>>, <<DartItem("d1"), DartItem("d2")>>}

\* what one GET of the search API can come to: a 200 response, a 429
\* response, another non-success status, a timeout or a connection error
NaverResponses == {"ok", "s429", "s500", "timeout", "connect"}

\* what the one GET of the disclosure API can come to; "s013" and "s100" are
\* 200 responses whose body status is not "000"
DartResponses == {"ok", "s013", "s100", "s429", "s500", "timeout"}

\* responses after which a later attempt could succeed
Transient == {"s429", "s500", "timeout", "connect"}

\* variant: the same wait before every retry
BackoffConstant(attempt) == 1

\* wait = 1.0 * (2 ** attempt)
Backoff(attempt) == 2 ^ attempt

\* the items whose pubDate parsed (the others are skipped by the loop)
Parsed(items) == SelectSeq(items, LAMBDA a : a.pub # "bad")

\* naver_filtered: published_at >= start_date
InWindow(items) == SelectSeq(items, LAMBDA a : a.pub # "old")

\* deduplicate by source_url, first occurrence kept; an article whose
\* source_url is empty is always kept and never recorded as seen
RECURSIVE Dedupe(_, _)
Dedupe(items, seen) ==
    IF Len(items) = 0 THEN << >>
    ELSE IF Head(items).url # "" /\ Head(items).url \in seen
         THEN Dedupe(Tail(items), seen)
    ELSE <<Head(items)>>
            \o Dedupe(Tail(items),
                      IF Head(items).url # "" THEN seen \cup {Head(items).url} ELSE seen)

\* compute_sentiment_score(articles).status from len(articles)
SentimentStatus(n) ==
    IF n = 0 THEN "no_data"
    ELSE IF n < news_min_articles THEN "insufficient"
    ELSE "active"

\* the locals of one collect_news_for_ticker call before its first request
FetchStart(k, creds, key, done) ==
    [pc |-> "naver", k |-> k, creds |-> creds, key |-> key,
     attempt |-> 0, sleeps |-> << >>, gets |-> << >>,
     naver |-> << >>, naverEnd |-> "none", naverLast |-> "none",
     dart |-> << >>, dartEnd |-> "none", dartLast |-> "none", dartGets |-> << >>,
     articles |-> done, ends |-> << >>, raised |-> FALSE]

\* the news stage starts the collection of the first ticker; creds: both
\* Naver credentials are configured; key: the DART key is configured
StartCollect ==
    /\ fetch.pc = "idle"
    /\ \E creds \in BOOLEAN, key \in BOOLEAN :
          fetch' = FetchStart(1, creds, key, << >>)
    /\ UNCHANGED <<engineVars, mcVars, sideVars, llm, kcall>>

\* variant: a fetch that found no usable response lets its error escape
NaverReturnRaises(f, items, end, last) ==
    [f EXCEPT !.pc = "dart", !.naver = items, !.naverEnd = end, !.naverLast = last,
              !.raised = end \in {"exhausted", "http_error", "exception"}]

\* the search fetch leaves its loop with this result
NaverReturn(f, items, end, last) ==
    [f EXCEPT !.pc = "dart", !.naver = items, !.naverEnd = end, !.naverLast = last]

\* fetch_naver_news: the credential check, or one pass of the for loop with
\* the return that follows the last pass
NaverAttempt ==
    /\ fetch.pc = "naver"
    /\ IF ~fetch.creds
       THEN fetch' = NaverReturn(fetch, << >>, "no_credentials", "none")
       ELSE \E resp \in NaverResponses, items \in NaverItemLists :
               LET f == [fetch EXCEPT !.gets = Append(@, NaverTimeout)]
               IN CASE resp = "ok" ->
                         fetch' = NaverReturn(f, Parsed(items), "ok", resp)
                    [] resp = "s429" ->
                         LET g == [f EXCEPT !.sleeps = Append(@, Backoff(f.attempt)),
                                            !.attempt = @ + 1]
                         IN IF g.attempt < max_retries
                            THEN fetch' = [g EXCEPT !.naverLast = resp]
                            ELSE fetch' = NaverReturn(g, << >>, "exhausted", resp)
                    [] resp = "s500" ->
                         fetch' = NaverReturn(f, << >>, "http_error", resp)
                    [] OTHER ->
                         fetch' = NaverReturn(f, << >>, "exception", resp)
    /\ UNCHANGED <<engineVars, mcVars, sideVars, llm, kcall>>

\* fetch_dart_disclosures: the key check, or its single request
DartFetch ==
    /\ fetch.pc = "dart"
    /\ IF ~fetch.key
       THEN fetch' = [fetch EXCEPT !.pc = "collect", !.dartEnd = "no_key"]
       ELSE \E resp \in DartResponses, items \in DartItemLists :
               LET f == [fetch EXCEPT !.dartGets = Append(@, DartTimeout),
                                      !.dartLast = resp, !.pc = "collect"]
               IN CASE resp = "ok" ->
                         fetch' = [f EXCEPT !.dart = items, !.dartEnd = "ok"]
                    [] resp \in {"s013", "s100"} ->
                         fetch' = [f EXCEPT !.dartEnd = "empty"]
                    [] OTHER ->
                         fetch' = [f EXCEPT !.dartEnd = "exception"]
    /\ UNCHANGED <<engineVars, mcVars, sideVars, llm, kcall>>

\* collect_news_for_ticker after the gather: window filter, combine,
\* deduplicate; then the next ticker's collection starts, or scoring
Collect ==
    /\ fetch.pc = "collect"
    /\ LET unique == Dedupe(InWindow(fetch.naver) \o fetch.dart, {})
           done == Append(fetch.articles, unique)
           ends == Append(fetch.ends,
                          [naver |-> fetch.naverEnd, dart |-> fetch.dartEnd,
                           gets |-> Len(fetch.gets), dartGets |-> Len(fetch.dartGets),
                           naverLast |-> fetch.naverLast, dartLast |-> fetch.dartLast])
       IN IF fetch.k < Len(FetchOrder)
          THEN fetch' = [FetchStart(fetch.k + 1, fetch.creds, fetch.key, done)
                            EXCEPT !.ends = ends]
          ELSE fetch' = [pc |-> "scored", articles |-> done, ends |-> ends,
                         raised |-> FALSE,
                         status |-> [k \in 1..Len(done) |-> SentimentStatus(Len(done[k]))],
                         lookup |-> {FetchOrder[k] : k \in
                                       {j \in 1..Len(done) :
                                           SentimentStatus(Len(done[j])) = "active"}}]
    /\ UNCHANGED <<engineVars, mcVars, sideVars, llm, kcall>>

InitFetch ==
    /\ InitEngine([t \in Tickers |-> InactiveRec], TRUE)
    /\ InitMc
    /\ InitAux

NextFetch ==
    \/ StartCollect
    \/ NaverAttempt
    \/ DartFetch
    \/ Collect

SpecFetch == InitFetch /\ [][NextFetch]_vars

(***************************************************************************)
(* Numeric kernels called directly                                         *)
(***************************************************************************)

\* an optional number: <<>> is Python's None, <<v>> the value v
Nothing == <<>>

Some(v) == <<v>>

\* the axis keys of composite.py in declaration order
AxisKeys == <<"w_value", "w_flow", "w_momentum", "w_forecast", "w_sentiment">>

\* DEFAULT_WEIGHTS in hundredths
DEFAULT_WEIGHTS ==
    [k \in Range(AxisKeys) |->
        CASE k = "w_value"     -> 25
          [] k = "w_flow"      -> 25
          [] k = "w_momentum"  -> 20
          [] k = "w_forecast"  -> 20
          [] k = "w_sentiment" -> 10]

RECURSIVE SumOver(_, _)
\* sum(f[k] for k in keys)
SumOver(f, keys) ==
    IF keys = {} THEN 0
    ELSE LET k == CHOOSE x \in keys : TRUE
         IN f[k] + SumOver(f, keys \ {k})

\* the weights of the available axes passed through without renormalising
WeightsUsedRaw(has) ==
    [k \in Range(AxisKeys) |-> IF has[k] THEN DEFAULT_WEIGHTS[k] * 100 ELSE 0]

\* the weight redistribution of compute_composite_score over the available
\* axes; each weight is round(w / available_weight_sum, 4), in units of 1e-4
WeightsUsed(has) ==
    LET available_weight_sum == SumOver(DEFAULT_WEIGHTS, {k \in Range(AxisKeys) : has[k]})
    IN [k \in Range(AxisKeys) |->
          IF has[k] /\ available_weight_sum > 0
          THEN RoundHalfEven(DEFAULT_WEIGHTS[k] * 10000, available_weight_sum)
          ELSE 0]

\* compute_composite_score from the point where the five sub-scores are
\* known; sub-scores and the composite are in hundredths of a point
compute_composite_score(sc) ==
    LET has == [k \in Range(AxisKeys) |-> sc[k] # Nothing]
        axes_available == Cardinality({k \in Range(AxisKeys) : has[k]})
        weights_used == WeightsUsed(has)
        weighted == [k \in Range(AxisKeys) |->
                        IF has[k] THEN weights_used[k] * sc[k][1] ELSE 0]
    IN IF axes_available = 0
       THEN [composite_score |-> Nothing,
             weights_used |-> [k \in Range(AxisKeys) |-> 0],
             axes_available |-> 0]
       ELSE [composite_score |->
                Some(RoundHalfEven(SumOver(weighted, Range(AxisKeys)), 10000)),
             weights_used |-> weights_used,
             axes_available |-> axes_available]

\* sub-scores a caller can pass: absent, or 0, 50 or 100 points
SubScoreInputs == {Nothing, Some(0), Some(5000), Some(10000)}

\* the caller takes the result; the next call starts from there
KernelReturn ==
    /\ kcall # NoCall
    /\ kcall' = NoCall
    /\ UNCHANGED <<engineVars, mcVars, sideVars, fetch, llm>>

CallCompositeScore ==
    /\ kcall = NoCall
    /\ \E sc \in [Range(AxisKeys) -> SubScoreInputs] :
          kcall' = [fn |-> "compute_composite_score",
                    scores |-> sc,
                    out |-> compute_composite_score(sc)]
    /\ UNCHANGED <<engineVars, mcVars, sideVars, fetch, llm>>

\* _classify_signal(score), score in points
classify_signal(score) ==
    IF score = Nothing THEN "unknown"
    ELSE IF score[1] >= 75 THEN "strong_buy"
    ELSE IF score[1] >= 60 THEN "buy"
    ELSE IF score[1] >= 40 THEN "neutral"
    ELSE IF score[1] >= 25 THEN "sell"
    ELSE "strong_sell"

BUY_SIGNALS == {"strong_buy", "buy"}

SELL_SIGNALS == {"strong_sell", "sell"}

\* number of positions of the signal list whose signal is in the set
CountIn(sigs, set) == Cardinality({k \in 1..Len(sigs) : sigs[k] \in set})

\* detect_confluence(value_score, flow_score, momentum_score, forecast_score):
\* the four signals, the tier and the direction
detect_confluence(scores) ==
    LET sigs == [k \in 1..Len(scores) |-> classify_signal(scores[k])]
        num_known == Len(scores) - CountIn(sigs, {"unknown"})
        buy_count == CountIn(sigs, BUY_SIGNALS)
        sell_count == CountIn(sigs, SELL_SIGNALS)
        strong_buy_count == CountIn(sigs, {"strong_buy"})
        strong_sell_count == CountIn(sigs, {"strong_sell"})
        td == IF num_known >= 3 /\ strong_buy_count = num_known THEN <<5, "buy">>
              ELSE IF num_known >= 3 /\ strong_sell_count = num_known THEN <<5, "sell">>
              ELSE IF num_known >= 3 /\ buy_count = num_known THEN <<4, "buy">>
              ELSE IF num_known >= 3 /\ sell_count = num_known THEN <<4, "sell">>
              ELSE IF /\ strong_buy_count >= 2
                      /\ buy_count + strong_buy_count >= 2
                      /\ num_known - buy_count <= 1 THEN <<3, "buy">>
              ELSE IF /\ strong_sell_count >= 2
                      /\ sell_count + strong_sell_count >= 2
                      /\ num_known - sell_count <= 1 THEN <<3, "sell">>
              ELSE IF /\ strong_buy_count = 1
                      /\ sell_count = 0
                      /\ strong_sell_count = 0 THEN <<2, "buy">>
              ELSE IF /\ strong_sell_count = 1
                      /\ buy_count = 0
                      /\ strong_buy_count = 0 THEN <<2, "sell">>
              ELSE <<1, "neutral">>
    IN [signals |-> sigs, confluence_tier |-> td[1], direction |-> td[2]]

\* sub-scores in points, one or two per signal band, or absent
SignalScoreInputs == {Nothing, Some(10), Some(30), Some(50), Some(65), Some(80)}

CallDetectConfluence ==
    /\ kcall = NoCall
    /\ \E scores \in [1..4 -> SignalScoreInputs] :
          kcall' = [fn |-> "detect_confluence",
                    scores |-> scores,
                    out |-> detect_confluence(scores)]
    /\ UNCHANGED <<engineVars, mcVars, sideVars, fetch, llm>>

\* most trend rows in one percentile pass
MaxTrendRows == 8

\* 20-day RS values of a trend row in hundredths; -1 is a row whose RS is None
RsInputs == {-1, 90, 110}

\* the percentile pass of the run over a list of trend rows
CallFillPercentiles ==
    /\ kcall = NoCall
    /\ \E n \in 1..MaxTrendRows :
          \E rs \in [1..n -> RsInputs] :
             LET trend_rows == [k \in 1..n |-> Row(k, [rs |-> rs[k], pct |-> -1])]
             IN kcall' = [fn |-> "fill_percentiles",
                          rows |-> trend_rows,
                          out |-> FillPercentiles(trend_rows)]
    /\ UNCHANGED <<engineVars, mcVars, sideVars, fetch, llm>>

\* WHALE_INVESTOR_TYPES of whale.py
WHALE_INVESTOR_TYPES == Range(WhaleTypeSeq)

RECURSIVE SumSeq(_)
\* sum of a sequence of integers
SumSeq(q) == IF q = <<>> THEN 0 ELSE Head(q) + SumSeq(Tail(q))

\* abs(x)
AbsInt(x) == IF x < 0 THEN 0 - x ELSE x

\* [record.get(investor_type) for record in data if it is not None]
NetValues(data, investor_type) ==
    LET col == [d \in 1..Len(data) |-> data[d][investor_type]]
        got == SelectSeq(col, LAMBDA v : v # Nothing)
    IN [k \in 1..Len(got) |-> got[k][1]]

\* one component of compute_whale_score; score in hundredths of a point,
\* avg_daily_trading_value = 0 stands for None
WhaleComponent(net_values, avg_daily_trading_value) ==
    LET net_total == SumSeq(net_values)
        buy_days == Cardinality({k \in 1..Len(net_values) : net_values[k] > 0})
        sell_days == Cardinality({k \in 1..Len(net_values) : net_values[k] < 0})
        active_days == Len(net_values)
        cap == active_days * avg_daily_trading_value
    IN IF net_values = <<>>
       THEN [net_total |-> 0, buy_days |-> 0, sell_days |-> 0, score |-> 0]
       ELSE [net_total |-> net_total,
             buy_days |-> buy_days,
             sell_days |-> sell_days,
             score |->
                IF avg_daily_trading_value > 0
                THEN (6000 * buy_days * avg_daily_trading_value
                         + 4000 * Min(AbsInt(net_total), cap)) \div cap
                ELSE (8000 * buy_days) \div active_days]

\* max of a non-empty set of integers
MaxOf(set) == CHOOSE m \in set : \A x \in set : x <= m

\* max * 0.5 + avg * 0.5 over the sub-scores of the listed types, rounded to
\* two decimals, in hundredths
HalfMaxHalfMean(components, types) ==
    LET scores == [t \in types |-> components[t].score]
        n == Cardinality(types)
    IN IF types = {} THEN 0
       ELSE RoundHalfEven(MaxOf({scores[t] : t \in types}) * n + SumOver(scores, types),
                          2 * n)

\* whale.py _classify_signal(whale_score, components)
WhaleSignal(whale_score, components) ==
    LET total_net == SumOver([t \in WHALE_INVESTOR_TYPES |-> components[t].net_total],
                             WHALE_INVESTOR_TYPES)
    IN IF whale_score >= 7000 THEN "strong_accumulation"
       ELSE IF whale_score >= 5000 THEN "mild_accumulation"
       ELSE IF whale_score >= 3000 THEN "neutral"
       ELSE IF total_net < 0 THEN "distribution"
       ELSE "neutral"

\* compute_whale_score(investor_data, avg_daily_trading_value); the records
\* are in date order and no more than the lookback
compute_whale_score(investor_data, avg_daily_trading_value) ==
    LET components ==
           [t \in WHALE_INVESTOR_TYPES |->
               WhaleComponent(NetValues(investor_data, t), avg_daily_trading_value)]
        active == {t \in WHALE_INVESTOR_TYPES :
                      components[t].buy_days + components[t].sell_days > 0}
        whale_score == HalfMaxHalfMean(components, active)
    IN IF investor_data = <<>>
       THEN [whale_score |-> 0,
             components |-> [t \in WHALE_INVESTOR_TYPES |-> WhaleComponent(<<>>, 0)],
             signal |-> "neutral",
             lookback_days |-> 0]
       ELSE [whale_score |-> whale_score,
             components |-> components,
             signal |-> WhaleSignal(whale_score, components),
             lookback_days |-> Len(investor_data)]

\* days of investor records in one call
WhaleDays == 2

\* the net flows of one investor type over the days: never recorded, all
\* zero, all buying, all selling, or buying then selling
ClassSeries ==
    {[d \in 1..WhaleDays |-> Nothing],
     [d \in 1..WhaleDays |-> Some(0)],
     [d \in 1..WhaleDays |-> Some(1)],
     [d \in 1..WhaleDays |-> Some(0 - 1)],
     [d \in 1..WhaleDays |-> IF d = 1 THEN Some(1) ELSE Some(0 - 1)]}

\* average daily trading value: None (0) or twice the unit flow
AvgTradingValues == {0, 2}

CallWhaleScore ==
    /\ kcall = NoCall
    /\ \/ \E series \in [WHALE_INVESTOR_TYPES -> ClassSeries], atv \in AvgTradingValues :
             LET investor_data ==
                    [d \in 1..WhaleDays |-> [t \in WHALE_INVESTOR_TYPES |-> series[t][d]]]
             IN kcall' = [fn |-> "compute_whale_score",
                          investor_data |-> investor_data,
                          avg_daily_trading_value |-> atv,
                          out |-> compute_whale_score(investor_data, atv)]
       \/ \E atv \in AvgTradingValues :
             kcall' = [fn |-> "compute_whale_score",
                       investor_data |-> <<>>,
                       avg_daily_trading_value |-> atv,
                       out |-> compute_whale_score(<<>>, atv)]
    /\ UNCHANGED <<engineVars, mcVars, sideVars, fetch, llm>>

\* the kernels that take an array, each with the input length below which
\* its guard clause returns the neutral record (or None); simulate_gbm has
\* no guard clause
KernelGuard ==
    [compute_whale_score           |-> 1,
     compute_retail_contrarian     |-> 1,
     compute_smart_dumb_divergence |-> 1,
     compute_flow_momentum_shift   |-> 5,
     compute_relative_strength     |-> 2,
     compute_disparity             |-> 1,
     compute_bollinger             |-> 20,
     compute_macd                  |-> 35,
     compute_volatility            |-> 2,
     compute_beta                  |-> 2,
     compute_max_drawdown          |-> 2,
     compute_sentiment_score       |-> 1,
     run_monte_carlo               |-> MIN_HISTORY_DAYS,
     simulate_garch                |-> 30,
     simulate_heston               |-> 30,
     simulate_merton               |-> 30,
     simulate_gbm                  |-> 0]

Kernels == DOMAIN KernelGuard

\* simulate_gbm on n log-returns: the sample standard deviation (ddof = 1) of
\* fewer than two values is NaN, NaN passes both sigma tests, the terminal
\* prices are NaN and int(np.percentile(...)) raises ValueError; with two or
\* more equal returns sigma is 0.0 and the result is None
simulate_gbm(n, flat) ==
    IF n < 2 THEN "raise"
    ELSE IF flat THEN "neutral"
    ELSE "computed"

\* what a kernel does with an input of length n: the neutral record of its
\* guard clause, a computed record, or an exception
KernelOutcome(k, n, flat) ==
    IF k = "simulate_gbm" THEN simulate_gbm(n, flat)
    ELSE IF n < KernelGuard[k] THEN "neutral"
    ELSE "computed"

\* longest input array of a direct kernel call
MaxInputLen == 61

CallKernelOnArray ==
    /\ kcall = NoCall
    /\ \E k \in Kernels, n \in 0..MaxInputLen, flat \in BOOLEAN :
          kcall' = [fn |-> "kernel_on_array",
                    kernel |-> k,
                    len |-> n,
                    flat |-> flat,
                    out |-> KernelOutcome(k, n, flat)]
    /\ UNCHANGED <<engineVars, mcVars, sideVars, fetch, llm>>

(***************************************************************************)
(* Hybrid scoring of one ticker's articles (score_articles)                *)
(***************************************************************************)

\* default of score_articles and of news_bert_confidence_threshold (0.70),
\* in thousandths
confidence_threshold == 700

\* most articles in one call of score_articles
MaxArticles == 3

\* class probabilities the classifier can return for its best label, in
\* ten-thousandths
ClassifierScores == {6000, 6996, 7000, 9000}

\* the record fetch_dart_disclosures builds: pre-scored by rule
DartDisclosure ==
    [source_name |-> "DART",
     has_text |-> TRUE,
     score |-> 6000,
     sentiment |-> Some([sentiment_raw |-> 0,
                         sentiment_label |-> "neutral",
                         sentiment_confidence |-> 1000,
                         scoring_method |-> "rule"])]

\* the record fetch_naver_news builds: no sentiment fields
NaverArticle(has_text, score) ==
    [source_name |-> "naver",
     has_text |-> has_text,
     score |-> score,
     sentiment |-> Nothing]

ArticleInputs ==
    {DartDisclosure, NaverArticle(FALSE, 6000)}
       \cup {NaverArticle(TRUE, s) : s \in ClassifierScores}

\* no article counts as scored already
IsPreScoredNever(article) == FALSE

\* article.get("scoring_method")
IsPreScored(article) == article.sentiment # Nothing

\* the articles with text that still need a score, by position
ValidArticles(articles) ==
    {i \in DOMAIN articles : ~IsPreScored(articles[i]) /\ articles[i].has_text}

\* stage 1: one entry of bert_results
BertResult(article, pipe) ==
    IF pipe = "ok"
    THEN Some([sentiment_raw |-> article.score,
               sentiment_label |-> "positive",
               sentiment_confidence |-> RoundHalfEven(article.score, 10),
               scoring_method |-> "bert"])
    ELSE Nothing

\* an article exactly at the threshold counts as low confidence
ConfidentStrict(bert_result) ==
    /\ bert_result # Nothing
    /\ bert_result[1].sentiment_confidence > confidence_threshold

\* bert_result and bert_result["sentiment_confidence"] >= confidence_threshold
Confident(bert_result) ==
    /\ bert_result # Nothing
    /\ bert_result[1].sentiment_confidence >= confidence_threshold

\* sort key of the escalation cap
CapKey(bert_result) ==
    IF bert_result = Nothing THEN 0 ELSE bert_result[1].sentiment_confidence

\* llm_pending after the cap: the max_llm_escalation lowest-confidence
\* articles, earlier articles first among equals
LlmPending(articles, pipe, anthropic_api_key, max_llm_escalation) ==
    LET br(i) == BertResult(articles[i], pipe)
        marked == IF anthropic_api_key
                  THEN {i \in ValidArticles(articles) : ~Confident(br(i))}
                  ELSE {}
        before(i) == {j \in marked : \/ CapKey(br(j)) < CapKey(br(i))
                                      \/ (CapKey(br(j)) = CapKey(br(i)) /\ j < i)}
    IN IF max_llm_escalation > 0 /\ Cardinality(marked) > max_llm_escalation
       THEN {i \in marked : Cardinality(before(i)) < max_llm_escalation}
       ELSE marked

\* what a successful LLM call writes into the article
LlmResult ==
    [sentiment_raw |-> -5000,
     sentiment_label |-> "negative",
     sentiment_confidence |-> 800,
     scoring_method |-> "llm"]

NeutralFallback ==
    [sentiment_raw |-> 0,
     sentiment_label |-> "neutral",
     sentiment_confidence |-> 0,
     scoring_method |-> "fallback"]

\* the positions of S among 1..n, in order
RECURSIVE IndicesIn(_, _)
IndicesIn(n, S) ==
    IF n = 0 THEN <<>>
    ELSE IF n \in S THEN Append(IndicesIn(n - 1, S), n)
    ELSE IndicesIn(n - 1, S)

\* score_articles: per input article whether it went to the classifier and
\* to the LLM and the sentiment fields it ends with; order is the returned
\* list, pre_scored + scored, as positions of the input
score_articles(articles, pipe, anthropic_api_key, max_llm_escalation, llm_ok) ==
    LET valid == ValidArticles(articles)
        pre == {i \in DOMAIN articles : IsPreScored(articles[i])}
        pending == LlmPending(articles, pipe, anthropic_api_key, max_llm_escalation)
        br(i) == BertResult(articles[i], pipe)
        final(i) ==
            IF i \in pre THEN articles[i].sentiment[1]
            ELSE IF i \in pending /\ i \in llm_ok THEN LlmResult
            ELSE IF br(i) # Nothing THEN br(i)[1]
            ELSE NeutralFallback
    IN [per |-> [i \in DOMAIN articles |->
                   [classified |-> i \in valid /\ pipe # "none",
                    escalated |-> i \in pending,
                    sentiment |-> IF i \in pre \cup valid
                                  THEN Some(final(i)) ELSE Nothing]],
        order |-> IndicesIn(Len(articles), pre) \o IndicesIn(Len(articles), valid)]

CallScoreArticles ==
    /\ kcall = NoCall
    /\ \E n \in 0..MaxArticles :
       \E articles \in [1..n -> ArticleInputs],
          pipe \in {"none", "raises", "ok"},
          key \in BOOLEAN,
          cap \in {0, 1} :
       \E llm_ok \in SUBSET LlmPending(articles, pipe, key, cap) :
          kcall' = [fn |-> "score_articles",
                    articles |-> articles,
                    pipe |-> pipe,
                    anthropic_api_key |-> key,
                    max_llm_escalation |-> cap,
                    out |-> score_articles(articles, pipe, key, cap, llm_ok)]
    /\ UNCHANGED <<engineVars, mcVars, sideVars, fetch, llm>>

(***************************************************************************)
(* _persist_snapshots, column by column                                    *)
(***************************************************************************)

\* the columns of a snapshot model: the key, two value columns standing
\* for the computed ones, and the timestamp
ModelColumns == {"trade_date", "ticker", "score", "grade", "computed_at"}

\* the tickers of the rows handed to the persister, in pipeline order
SnapshotTickers == <<"005930", "000660", "035720">>

\* a row as the pipeline builds it: every column but computed_at
SnapshotRow(t, score, grade) ==
    [trade_date |-> TargetDate, ticker |-> t, score |-> score, grade |-> grade]

\* the same row as stored, with the timestamp of its insertion
StoredRow(t, score, grade, at) ==
    [trade_date |-> TargetDate, ticker |-> t, score |-> score, grade |-> grade,
     computed_at |-> at]

\* variant: only the first value column is updated
UpdateColsFirstOnly(clean_batch) == {"score"}

\* update_cols: the keys of the first row of the batch that are neither key
\* nor timestamp
UpdateCols(clean_batch) ==
    DOMAIN clean_batch[1] \ {"trade_date", "ticker", "computed_at"}

\* one row of the statement against the table: a stored row with the same
\* (trade_date, ticker) takes excluded.<col> for every update column; a new
\* key is inserted with computed_at = now()
OnConflictDoUpdate(table, excluded, update_cols, now) ==
    LET hit == {s \in table : s.trade_date = excluded.trade_date
                              /\ s.ticker = excluded.ticker}
    IN IF hit = {}
       THEN table \cup {[c \in DOMAIN excluded \cup {"computed_at"} |->
                           IF c = "computed_at" THEN now ELSE excluded[c]]}
       ELSE (table \ hit) \cup
               {[c \in DOMAIN s |-> IF c \in update_cols THEN excluded[c] ELSE s[c]]
                  : s \in hit}

\* the statement of one batch: every row of clean_batch, filtered to the
\* model's columns
RECURSIVE ExecuteBatch(_, _, _, _)
ExecuteBatch(table, clean_batch, n, now) ==
    IF n = 0 THEN table
    ELSE OnConflictDoUpdate(ExecuteBatch(table, clean_batch, n - 1, now),
                            [c \in DOMAIN clean_batch[n] \cap ModelColumns |->
                                clean_batch[n][c]],
                            UpdateCols(clean_batch), now)

\* _persist_snapshots after the first n batches of rs
RECURSIVE persist_snapshots(_, _, _, _)
persist_snapshots(table, rs, n, now) ==
    IF n = 0 THEN table
    ELSE LET batch == Batch(rs, n)
         IN ExecuteBatch(persist_snapshots(table, rs, n - 1, now),
                         batch, Len(batch), now)

\* the rows of the tickers in S, in pipeline order, with the values of v
RECURSIVE RowsOf(_, _, _)
RowsOf(S, v, n) ==
    IF n = 0 THEN << >>
    ELSE LET t == SnapshotTickers[n]
         IN IF t \in S
            THEN Append(RowsOf(S, v, n - 1), SnapshotRow(t, v[t][1], v[t][2]))
            ELSE RowsOf(S, v, n - 1)

\* a later run persists its rows over the table an earlier run left
CallPersistSnapshots ==
    /\ kcall = NoCall
    /\ \E old \in SUBSET Range(SnapshotTickers) :
       \E new \in SUBSET Range(SnapshotTickers) \ {{}} :
       \E ov \in [old -> {10, 20} \X {"A", "B"}],
          nv \in [new -> {10, 20} \X {"A", "B"}] :
          LET table == {StoredRow(t, ov[t][1], ov[t][2], 0) : t \in old}
              rs == RowsOf(new, nv, Len(SnapshotTickers))
          IN kcall' = [fn |-> "persist_snapshots",
                       table |-> table,
                       rows |-> rs,
                       out |-> persist_snapshots(table, rs, NumBatches(Len(rs)), 1),
                       total |-> BatchTotal(rs, NumBatches(Len(rs)))]
    /\ UNCHANGED <<engineVars, mcVars, sideVars, fetch, llm>>

\* most sector-flow rows in a direct evaluation of the bonus loop
MaxSectorFlowRows == 4

\* signals a sector-flow row can carry
SectorFlowSignals == {"strong_accumulation", "mild_accumulation", "neutral"}

\* the bonus lookup built from a list of sector-flow rows; the k-th row is
\* for the k-th investor type
CallSectorFlowBonus ==
    /\ kcall = NoCall
    /\ \E n \in 0..MaxSectorFlowRows :
       \E sec \in [1..n -> {"IT", "CHEM"}], sig \in [1..n -> SectorFlowSignals] :
          LET sfRows == [k \in 1..n |->
                           [key |-> <<sec[k], k>>, val |-> [signal |-> sig[k]]]]
          IN kcall' = [fn |-> "sector_flow_bonus",
                       rows |-> sfRows,
                       out |-> [t \in Tickers |-> SectorFlowBonus(t, sfRows, n)]]
    /\ UNCHANGED <<engineVars, mcVars, sideVars, fetch, llm>>

InitKernel ==
    /\ InitEngine([t \in Tickers |-> InactiveRec], FALSE)
    /\ InitMc
    /\ InitAux

NextKernel ==
    \/ CallCompositeScore
    \/ CallKernelOnArray
    \/ CallWhaleScore
    \/ CallFillPercentiles
    \/ CallDetectConfluence
    \/ CallScoreArticles
    \/ CallPersistSnapshots
    \/ CallSectorFlowBonus
    \/ KernelReturn

SpecKernel == InitKernel /\ [][NextKernel]_vars

(***************************************************************************)
(* LLM escalation of low-confidence articles (score_articles)              *)
(***************************************************************************)

\* _score_articles_batch defaults, in seconds
poll_interval == 10

max_wait == 1800

\* smallest number of pending articles sent as one batch; stands for
\* _BATCH_API_THRESHOLD (20), scaled to the article counts below
BatchThreshold == 2

\* most articles escalated to the LLM in one call of score_articles
MaxPending == 3

\* the while condition of the polling loop
PollAgain(elapsed) == elapsed < max_wait

\* no article is re-sent after the batch stage
RemainingNone(llm_pending, llm_results) == {}

\* remaining = [p for p in llm_pending if p[0] not in llm_results]
Remaining(llm_pending, llm_results) == llm_pending \ llm_results

\* the last loop of score_articles: the LLM result, else the BERT result,
\* else the neutral "fallback" record
ApplyResults(llm_pending, llm_results, bert_results) ==
    [i \in llm_pending |->
        IF i \in llm_results THEN "llm"
        ELSE IF bert_results[i] THEN "bert"
        ELSE "fallback"]

\* score_articles reaches stage 2 with n pending articles; bert_results[i]
\* tells whether the local classifier produced a (low-confidence) result;
\* the batch is created, or its creation raises, or the batch path is not
\* taken
StartEscalation ==
    /\ llm.pc = "idle"
    /\ \E n \in 1..MaxPending, use_batch_api \in BOOLEAN, created \in BOOLEAN :
          \E bert_results \in [1..n -> BOOLEAN] :
             LET batch == use_batch_api /\ n >= BatchThreshold
             IN llm' = [pc |-> IF batch /\ created THEN "polling" ELSE "concurrent",
                        llm_pending |-> 1..n,
                        bert_results |-> bert_results,
                        batch |-> batch,
                        elapsed |-> 0,
                        polls |-> 0,
                        timed_out |-> FALSE,
                        llm_results |-> {},
                        resent |-> {},
                        final |-> <<>>]
    /\ UNCHANGED <<engineVars, mcVars, sideVars, fetch, kcall>>

\* one iteration of the polling loop: retrieve, then the batch has ended and
\* its results are streamed, or it is still processing and the loop sleeps,
\* or retrieve raises and score_articles catches it
PollBatch ==
    /\ llm.pc = "polling"
    /\ PollAgain(llm.elapsed)
    /\ \/ \E succeeded \in SUBSET llm.llm_pending :
             llm' = [llm EXCEPT !.pc = "concurrent",
                                !.polls = @ + 1,
                                !.llm_results = succeeded]
       \/ llm' = [llm EXCEPT !.polls = @ + 1,
                             !.elapsed = @ + poll_interval]
       \/ llm' = [llm EXCEPT !.pc = "concurrent", !.polls = @ + 1]
    /\ UNCHANGED <<engineVars, mcVars, sideVars, fetch, kcall>>

\* the else branch of the polling loop: warning, return {}
BatchTimeout ==
    /\ llm.pc = "polling"
    /\ ~PollAgain(llm.elapsed)
    /\ llm' = [llm EXCEPT !.pc = "concurrent", !.timed_out = TRUE]
    /\ UNCHANGED <<engineVars, mcVars, sideVars, fetch, kcall>>

\* the concurrent single calls for the remaining articles, each returning a
\* result or not, followed by the loop that applies the results
ConcurrentEscalation ==
    /\ llm.pc = "concurrent"
    /\ LET remaining == Remaining(llm.llm_pending, llm.llm_results)
       IN \E ok \in SUBSET remaining :
             llm' = [llm EXCEPT !.pc = "done",
                                !.resent = remaining,
                                !.llm_results = @ \cup ok,
                                !.final = ApplyResults(llm.llm_pending, llm.llm_results \cup ok,
                                                       llm.bert_results)]
    /\ UNCHANGED <<engineVars, mcVars, sideVars, fetch, kcall>>

\* return pre_scored + scored
ReturnScored ==
    /\ llm.pc = "done"
    /\ llm' = LlmIdle
    /\ UNCHANGED <<engineVars, mcVars, sideVars, fetch, kcall>>

InitLlm ==
    /\ InitEngine([t \in Tickers |-> InactiveRec], TRUE)
    /\ InitMc
    /\ InitAux

NextLlm ==
    \/ StartEscalation
    \/ PollBatch
    \/ BatchTimeout
    \/ ConcurrentEscalation
    \/ ReturnScored

SpecLlm == InitLlm /\ [][NextLlm]_vars

(***************************************************************************)
(* The classifier singleton (_bert_pipeline, _get_bert_pipeline)           *)
(***************************************************************************)

\* most scoring calls followed in one process
MaxCalls == 5

\* the module global is still None
PipelineNeverCached(pipeline) == FALSE

\* _bert_pipeline is not None; 0 stands for None, k > 0 for the instance
\* built during the k-th scoring call
PipelineCached(pipeline) == pipeline # 0

\* _get_bert_pipeline; load_ok: the import and the pipeline construction
\* succeed; id: the instance a successful construction gives
get_bert_pipeline(pipeline, load_ok, id) ==
    IF PipelineCached(pipeline)
    THEN [pipeline |-> pipeline, loading |-> FALSE, returned |-> pipeline]
    ELSE IF load_ok
    THEN [pipeline |-> id, loading |-> TRUE, returned |-> id]
    ELSE [pipeline |-> 0, loading |-> TRUE, returned |-> 0]

\* one scoring call recorded in the log of the process
AfterScoringCall(b, caller, uses_model, load_ok) ==
    IF uses_model
    THEN LET g == get_bert_pipeline(b.pipeline, load_ok, Len(b.log) + 1)
         IN [pipeline |-> g.pipeline,
             log |-> Append(b.log, [caller |-> caller, uses_model |-> TRUE,
                                    loading |-> g.loading, returned |-> g.returned])]
    ELSE [b EXCEPT !.log = Append(@, [caller |-> caller, uses_model |-> FALSE,
                                      loading |-> FALSE, returned |-> 0])]

\* score_articles: a call without any text to score returns before the
\* pipeline is asked for
ScoreArticlesCall ==
    /\ Len(bert.log) < MaxCalls
    /\ \E has_texts \in BOOLEAN, load_ok \in BOOLEAN :
          bert' = AfterScoringCall(bert, "score_articles", has_texts, load_ok)
    /\ UNCHANGED <<engineVars, mcVars, auxVars, gather, coll>>

\* score_article_bert: always asks for the pipeline
ScoreArticleBertCall ==
    /\ Len(bert.log) < MaxCalls
    /\ \E load_ok \in BOOLEAN :
          bert' = AfterScoringCall(bert, "score_article_bert", TRUE, load_ok)
    /\ UNCHANGED <<engineVars, mcVars, auxVars, gather, coll>>

InitBert ==
    /\ InitEngine([t \in Tickers |-> InactiveRec], FALSE)
    /\ InitMc
    /\ InitAux

NextBert ==
    \/ ScoreArticlesCall
    \/ ScoreArticleBertCall

SpecBert == InitBert /\ [][NextBert]_vars

(***************************************************************************)
(* Collector runs and the collection log (BaseCollector.run, get_session)  *)
(***************************************************************************)

\* most rows one run persists
MaxRecords == 2

\* get_session on leaving the with block: commit when the body returned,
\* rollback when it raised
SessionExit(committed, pending, raised) ==
    IF raised THEN committed ELSE pending

\* _log_start: insert the pair's row as running, or on conflict set status
\* to running and clear error_message
LogStart(table, key) ==
    [table EXCEPT ![key] = [status |-> "running",
                            records_count |-> @.records_count,
                            error_message |-> ""]]

\* _log_end: the row found for the pair takes status, count and error
LogEnd(table, key, status, count, error) ==
    IF table[key].status = "absent" THEN table
    ELSE [table EXCEPT ![key] = [status |-> status,
                                 records_count |-> count,
                                 error_message |-> error]]

\* run() returns count: _log_end("success") and the session commits
RunReturns(c, count) ==
    [pc |-> "idle",
     committed |-> SessionExit(c.committed,
                               LogEnd(c.pending, c.key, "success", count, ""),
                               FALSE),
     last |-> [key |-> c.key, outcome |-> "returned", count |-> count,
               error |-> ""]]

\* a step of run() raised: the except clause calls _log_end("failed") and
\* re-raises through the with block
RunRaises(c, error) ==
    [pc |-> "idle",
     committed |-> SessionExit(c.committed,
                               LogEnd(c.pending, c.key, "failed", 0, error),
                               TRUE),
     last |-> [key |-> c.key, outcome |-> "raised", count |-> 0,
               error |-> error]]

\* run(target_date) up to the call of fetch: session opened, _log_start
CollectorStart ==
    /\ coll.pc = "idle"
    /\ \E key \in LogKeys :
          coll' = [pc |-> "fetch", key |-> key,
                   committed |-> coll.committed,
                   pending |-> LogStart(coll.committed, key),
                   last |-> coll.last]
    /\ UNCHANGED <<engineVars, mcVars, auxVars, gather, bert>>

\* fetch(date_str): a frame with rows, no data, or an exception
CollectorFetch ==
    /\ coll.pc = "fetch"
    /\ \E res \in {"data", "empty", "raises"} :
          coll' = CASE res = "data" -> [coll EXCEPT !.pc = "validate"]
                    [] res = "empty" -> RunReturns(coll, 0)
                    [] OTHER -> RunRaises(coll, "fetch error")
    /\ UNCHANGED <<engineVars, mcVars, auxVars, gather, bert>>

\* validate(df): rows left, everything filtered out, or an exception
CollectorValidate ==
    /\ coll.pc = "validate"
    /\ \E res \in {"data", "empty", "raises"} :
          coll' = CASE res = "data" -> [coll EXCEPT !.pc = "persist"]
                    [] res = "empty" -> RunReturns(coll, 0)
                    [] OTHER -> RunRaises(coll, "validate error")
    /\ UNCHANGED <<engineVars, mcVars, auxVars, gather, bert>>

\* persist(df, target_date, session): the count written, or an exception
CollectorPersist ==
    /\ coll.pc = "persist"
    /\ \/ \E count \in 1..MaxRecords : coll' = RunReturns(coll, count)
       \/ coll' = RunRaises(coll, "persist error")
    /\ UNCHANGED <<engineVars, mcVars, auxVars, gather, bert>>

InitCollector ==
    /\ InitEngine([t \in Tickers |-> InactiveRec], FALSE)
    /\ InitMc
    /\ InitAux

NextCollector ==
    \/ CollectorStart
    \/ CollectorFetch
    \/ CollectorValidate
    \/ CollectorPersist

SpecCollector == InitCollector /\ [][NextCollector]_vars

(***************************************************************************)
(* News stage: the gather over the per-ticker fetch tasks (_pipeline)       *)
(***************************************************************************)

\* asyncio.Semaphore(3)
SemaphoreSlots == 3

\* asyncio.sleep(0.15) in clock ticks of 0.05 s
SleepTicks == 3

\* tickers handed to the news stage
NumFetchTasks == 4

\* last tick of the clock
MaxClock == 6

FetchTasks == 1..NumFetchTasks

Services == {"naver", "dart"}

\* tasks inside "async with sem"
Holders(g) == {t \in FetchTasks : g.task[t] \in {"collecting", "sleeping"}}

\* the semaphore never blocks
SemaphoreNeverLocked(g) == FALSE

\* Semaphore.locked(): no slot is free
SemaphoreLocked(g) == Cardinality(Holders(g)) >= SemaphoreSlots

\* the slot is released without the pause
WakeTimeNoSleep(now) == now

\* the time asyncio.sleep(0.15) returns at the earliest
WakeTime(now) == now + SleepTicks

\* tasks = [_collect_one(t, n) for ...]; gather schedules every task, each
\* one stops at the semaphore
StartGather ==
    /\ gather.pc = "idle"
    /\ gather' = [pc |-> "gathering",
                  clock |-> 0,
                  task |-> [t \in FetchTasks |-> "waiting"],
                  wake |-> [t \in FetchTasks |-> 0],
                  requests |-> [s \in Services |-> <<>>]]
    /\ UNCHANGED <<engineVars, mcVars, auxVars, bert, coll>>

\* the waiting task that was created first enters "async with sem" (tasks
\* start, and the semaphore wakes its waiters, in creation order) and
\* collect_news_for_ticker sends its two requests, one to each service
AcquireAndRequest ==
    /\ gather.pc = "gathering"
    /\ ~SemaphoreLocked(gather)
    /\ \E t \in FetchTasks :
          /\ gather.task[t] = "waiting"
          /\ \A u \in 1..(t - 1) : gather.task[u] # "waiting"
          /\ gather' = [gather EXCEPT
                           !.task[t] = "collecting",
                           !.requests = [s \in Services |-> Append(@[s], gather.clock)]]
    /\ UNCHANGED <<engineVars, mcVars, auxVars, bert, coll>>

\* collect_news_for_ticker returns (articles or none); the task starts its
\* pause, still inside the semaphore
CollectReturns ==
    /\ gather.pc = "gathering"
    /\ \E t \in FetchTasks :
          /\ gather.task[t] = "collecting"
          /\ gather' = [gather EXCEPT !.task[t] = "sleeping",
                                      !.wake[t] = WakeTime(gather.clock)]
    /\ UNCHANGED <<engineVars, mcVars, auxVars, bert, coll>>

\* the pause is over: the task leaves the semaphore and returns its result
ReleaseSlot ==
    /\ gather.pc = "gathering"
    /\ \E t \in FetchTasks :
          /\ gather.task[t] = "sleeping"
          /\ gather.clock >= gather.wake[t]
          /\ gather' = [gather EXCEPT !.task[t] = "done", !.wake[t] = 0]
    /\ UNCHANGED <<engineVars, mcVars, auxVars, bert, coll>>

\* time passes while the event loop waits on I/O or timers
ClockTick ==
    /\ gather.pc = "gathering"
    /\ gather.clock < MaxClock
    /\ \E t \in FetchTasks : gather.task[t] # "done"
    /\ gather' = [gather EXCEPT !.clock = @ + 1]
    /\ UNCHANGED <<engineVars, mcVars, auxVars, bert, coll>>

\* gather returns once every task is done
GatherReturns ==
    /\ gather.pc = "gathering"
    /\ \A t \in FetchTasks : gather.task[t] = "done"
    /\ gather' = [gather EXCEPT !.pc = "gathered"]
    /\ UNCHANGED <<engineVars, mcVars, auxVars, bert, coll>>

InitGather ==
    /\ InitEngine([t \in Tickers |-> InactiveRec], TRUE)
    /\ InitMc
    /\ InitAux

NextGather ==
    \/ StartGather
    \/ AcquireAndRequest
    \/ CollectReturns
    \/ ReleaseSlot
    \/ ClockTick
    \/ GatherReturns

SpecGather == InitGather /\ [][NextGather]_vars

(***************************************************************************)
(* Properties                                                              *)
(***************************************************************************)

\* rank of the code stage a position belongs to
StageRank(p) ==
    CASE p = "start" -> 0
      [] p = "pipeline" -> 1
      [] p = "news" -> 2
      [] p \in {"sim_load", "sim_submit", "sim_collect"} -> 3
      [] p = "cross" -> 4
      [] p = "composite" -> 5
      [] p \in {"persist", "return"} -> 6
      [] OTHER -> 7

\* rank of a component in the order of spec section 2
CompRank(c) ==
    CASE c = "none" -> 0
      [] c = "loader" -> 1
      [] c = "pipeline" -> 2
      [] c = "news" -> 3
      [] c = "simulation" -> 4
      [] c = "cross" -> 5
      [] c = "composite" -> 6
      [] OTHER -> 7

WorkerRaises(t) == RunSimulationWorker(t, PriceSeries(inp[t].px), {}).kind = "raise"

\* C1: a raise for one ticker (per-ticker pipeline, news collection,
\* simulation worker) is logged as a warning and skipped; every other ticker
\* is still processed and the run goes on to persistence: the run is never
\* aborted by a ticker, only by a database error of the persister.
C1_TickerFailureNeverAborts ==
    /\ pc = "failed" => dbError
    /\ (StageRank(pc) >= 2 /\ pc # "failed" /\ Len(tickers) > 0) =>
          /\ idx = Len(tickers) + 1
          /\ \A t \in Range(tickers) :
                /\ inp[t].fault # "none" => <<"pipeline", t>> \in warnings
                /\ inp[t].fault = "none" =>
                      \A k \in 1..Len(PipelineAxes) : HasRow(rows[PipelineAxes[k]], t)
    /\ (StageRank(pc) >= 3 /\ pc # "failed" /\ Len(tickers) > 0 /\ newsEnabled) =>
          \A t \in Range(tickers) :
             /\ inp[t].news = "raise" => <<"news_collect", t>> \in warnings
             /\ inp[t].news = "active" => HasRow(rows["news_sentiment"], t)
    /\ (StageRank(pc) >= 4 /\ pc # "failed" /\ Len(tickers) > 0) =>
          \A t \in Range(tickerPrices) :
             /\ t \in Range(simDone)
             /\ WorkerRaises(t) => <<"sim_worker", t>> \in warnings

C1_Witness ==
    /\ pc = "done"
    /\ Len(tickers) = 2
    /\ inp[tickers[1]].fault = "whale"
    /\ inp[tickers[2]].fault = "none"
    /\ <<"pipeline", tickers[1]>> \in warnings
    /\ <<"sim_worker", tickers[1]>> \in warnings
    /\ newsEnabled /\ inp[tickers[1]].news = "raise"
    /\ \E s \in store["risk"] : s.key = tickers[2]
    /\ \E s \in store["news_sentiment"] : s.key = tickers[2]

\* C2 as stated: after a database error in one batch the run still completes
\* (that batch alone is abandoned, the run does not abort).
C2_BatchErrorDoesNotAbort == dbError => pc # "failed"

\* C2 amended: a database error in a batch upsert leaves run(): nothing more
\* is persisted, the session is rolled back so that the stored tables are
\* those of before the run, and no summary is returned.
C2_BatchErrorRollsBackAndAborts ==
    dbError => (pc = "failed" /\ store = startStore /\ summary = NoSummary)

C2_Witness ==
    /\ dbError
    /\ run = 2
    /\ cat >= 2
    /\ Len(rows["quant"]) > 0
    /\ store["quant"] # {}
    /\ \E r \in Range(rows["quant"]) :
          \E s \in store["quant"] : s.key = r.key /\ s.val # r.val

\* the tables the run leaves when every statement of every category executed
AllWritten ==
    [c \in Categories |->
        UpsertBatches(startStore[c], rows[c], NumBatches(Len(rows[c])), run)]

\* C3: the rows of one run land atomically: the stored tables are those of
\* before the run until the run has completed, and once it has completed
\* they hold the rows of every category; a failed run leaves none of them.
C3_RunIsAtomic ==
    /\ pc = "done" => store = AllWritten
    /\ pc # "done" => store = startStore

C3_Witness ==
    /\ pc = "failed"
    /\ dbError
    /\ cat >= 3
    /\ Len(rows["quant"]) > 0
    /\ Len(rows["whale"]) > 0
    /\ store = startStore
    /\ AllWritten # startStore

\* a table without its computed_at column
Content(table) == {[date |-> r.date, key |-> r.key, val |-> r.val] : r \in table}

Contents(tables) == [c \in Categories |-> Content(tables[c])]

SecondRunDone == run = 2 /\ pc = "done"

\* C4: two completed runs on the same target date that read the same inputs
\* leave the same tables, computed_at aside.
C4_RerunSameInputsSameTables ==
    (SecondRunDone /\ inp = prev.inp) => Contents(store) = Contents(prev.store)

C4_Witness ==
    /\ SecondRunDone
    /\ inp = prev.inp
    /\ Cardinality(store["quant"]) = 2
    /\ store["composite"] # {}
    /\ store["sector_flow"] # {}
    /\ store["news_sentiment"] # {}
    /\ \A s \in store["quant"] : s.at = 1

\* C5 as stated: after the second run the stored rows are exactly the rows
\* the second run produced; nothing written only by the first run remains.
C5_SecondRunFullyReplaces ==
    SecondRunDone =>
       \A c \in Categories : Content(store[c]) = Range(rows[c])

\* C5 amended: after the second run every row it produced is stored with the
\* second run's values in all non-key, non-timestamp columns; a row whose
\* key only the first run produced remains as the first run wrote it, and an
\* overwritten row keeps the computed_at of the first run.
C5_SecondRunOverwritesByKey ==
    SecondRunDone =>
       \A c \in Categories :
          /\ Range(rows[c]) \subseteq Content(store[c])
          /\ \A s \in prev.store[c] :
                IF <<s.date, s.key>> \in {<<r.date, r.key>> : r \in Range(rows[c])}
                THEN \E u \in store[c] :
                        u.date = s.date /\ u.key = s.key /\ u.at = s.at
                ELSE s \in store[c]
          /\ \A u \in store[c] :
                \/ [date |-> u.date, key |-> u.key, val |-> u.val] \in Range(rows[c])
                \/ u \in prev.store[c]

C5_Witness ==
    /\ SecondRunDone
    /\ \E s \in prev.store["quant"], u \in store["quant"] :
          s.key = u.key /\ s.val # u.val /\ u.at = 1
    /\ \E s \in prev.store["whale"] :
          s \in store["whale"] /\ ~HasRow(rows["whale"], s.key)

\* C6 as stated: the components act strictly in the order loader, per-ticker
\* pipeline, news, simulation, cross-ticker, composite, persister.
C6_ComponentsStrictlyOrdered ==
    [][run' = run => CompRank(comp') >= CompRank(comp)]_vars

StagesComplete ==
    /\ (StageRank(pc) >= 2 /\ Len(tickers) > 0) => idx = Len(tickers) + 1
    /\ StageRank(pc) >= 1 => tickers \in Perms(ActiveSet(inp))
    /\ (StageRank(pc) >= 4 /\ Len(tickers) > 0) =>
          /\ futures = {}
          /\ Range(simDone) = Range(tickerPrices)
          /\ Len(simDone) = Len(tickerPrices)
    /\ StageRank(pc) <= 5 => txn = startStore

\* C6 amended: the stages of run() occur strictly in the order universe
\* load, per-ticker pipeline, news, simulation, cross-ticker passes,
\* composite, persister, and a stage starts only when every step of the
\* earlier stages has finished; the loader is not confined to the first
\* stage: the simulation stage reads the price windows itself, after news.
C6_StagesStrictlyOrdered ==
    /\ [] StagesComplete
    /\ [][run' = run => StageRank(pc') >= StageRank(pc)]_vars

C6_Witness ==
    /\ pc = "cross"
    /\ comp = "simulation"
    /\ Len(simDone) = 2
    /\ simDone[1] = tickers[2]
    /\ newsEnabled

(***************************************************************************)
(* The tables a run must leave, written from the input alone               *)
(***************************************************************************)

AxisTickers(axis) ==
    {t \in ActiveSet(inp) :
        AxisPos(axis) < FaultIndex(inp[t].fault) /\ AxisHasData(axis, inp[t])}

ExpectedPct(t) ==
    LET TT == AxisTickers("trend")
        below == Cardinality({u \in TT : 10 * inp[u].ver < 10 * inp[t].ver})
    IN Min(RoundHalfEven(below * 100, Cardinality(TT)), 100)

ExpectedSimTickers ==
    {t \in ActiveSet(inp) :
        /\ Len(PriceSeries(inp[t].px)) >= MIN_HISTORY_DAYS
        /\ RunSimulationWorker(t, PriceSeries(inp[t].px), {}).kind = "row"}

ExpectedAcc == {t \in ActiveSet(inp) : inp[t].fault = "none" /\ inp[t].inv}

ExpectedSectorRows == Range(compute_sector_flows(ExpectedAcc, inp))

ExpectedBonus(t) ==
    LET mine == {r \in ExpectedSectorRows : r.key[1] = SectorOf(t)}
        strong == Cardinality({r \in mine : r.val.signal = "strong_accumulation"})
        mild == Cardinality({r \in mine : r.val.signal = "mild_accumulation"})
    IN Min(15 * strong + 5 * mild, 15)

ExpectedRows(c) ==
    CASE c = "trend" ->
            {Row(t, [rs |-> 10 * inp[t].ver, pct |-> ExpectedPct(t)]) :
                t \in AxisTickers("trend")}
      [] c \in Range(PipelineAxes) \ {"trend"} ->
            {Row(t, [v |-> inp[t].ver]) : t \in AxisTickers(c)}
      [] c = "simulation" ->
            {Row(t, [days |-> Len(CleanPrices(PriceSeries(inp[t].px))),
                     breakdown |-> TRUE]) : t \in ExpectedSimTickers}
      [] c = "sector_flow" -> ExpectedSectorRows
      [] c = "news_sentiment" ->
            IF newsEnabled
            THEN {Row(t, [v |-> inp[t].ver, status |-> NewsStatus(inp[t].news)]) :
                     t \in {u \in ActiveSet(inp) : NewsStatus(inp[u].news) # "no_data"}}
            ELSE {}
      [] c = "news_articles" ->
            IF newsEnabled
            THEN UNION {Range(ArticleRows(t, inp[t])) : t \in ActiveSet(inp)}
            ELSE {}
      [] OTHER ->
            {Row(t, [q |-> t \in AxisTickers("quant"),
                     w |-> t \in AxisTickers("whale"),
                     tr |-> t \in AxisTickers("trend"),
                     sim |-> t \in ExpectedSimTickers,
                     sent |-> newsEnabled /\ NewsStatus(inp[t].news) = "active",
                     bonus |-> ExpectedBonus(t),
                     v |-> inp[t].ver]) :
                t \in AxisTickers("quant") \cup AxisTickers("whale")
                         \cup AxisTickers("trend")}

ExpectedContents ==
    [c \in Categories |->
        {s \in Content(startStore[c]) :
            <<s.date, s.key>> \notin {<<r.date, r.key>> : r \in ExpectedRows(c)}}
        \cup ExpectedRows(c)]

\* C7: the tables a completed run leaves are determined by the input alone:
\* they are the same whatever order the tickers were read in, the simulation
\* workers finished in and the rows of a category were handed to the persister.
C7_FinalStateIndependentOfOrder ==
    pc = "done" => Contents(store) = ExpectedContents

C7_Witness ==
    /\ pc = "done"
    /\ Len(tickers) = 2
    /\ tickers[1] = "005930"
    /\ simDone = <<tickers[2], tickers[1]>>
    /\ inp[tickers[1]].ver # inp[tickers[2]].ver
    /\ Cardinality(store["trend"]) = 2
    /\ Cardinality(store["composite"]) = 2

\* C8: every active ticker with at least 60 clean closes in the window gets
\* a simulation row from the payload its pool worker returned.
C8_EligibleTickerGetsSimulationRow ==
    pc = "done" =>
       \A t \in Range(tickers) :
          Len(CleanPrices(PriceSeries(inp[t].px))) >= MIN_HISTORY_DAYS
          => \E s \in store["simulation"] : s.key = t

SummaryCategories ==
    {"quant", "whale", "trend", "flow", "technical", "risk", "composite",
     "simulation", "sector_flow", "news_sentiment"}

\* C10: the summary run() returns has, for every snapshot category, the
\* number of rows persisted for it, zero where no work was done, also when
\* no ticker is active.
C10_SummaryCoversEveryCategory ==
    pc = "done" =>
       /\ DOMAIN summary = SummaryCategories
       /\ \A c \in SummaryCategories : summary[c] = Len(rows[c])

(***************************************************************************)
(* News collectors                                                         *)
(***************************************************************************)

\* a fetch that ended without a usable response
NaverFailed(e) == e.naver \in {"exhausted", "http_error", "exception"}

DartFailed(e) == e.dart = "exception"

\* C11 (as stated): a request that still fails after its retries makes the
\* ticker no-data: no error is raised and the ticker gives no sentiment
\* input to the composite or the simulation.
C11_FailedRequestMakesTickerNoData ==
    fetch.pc = "scored" =>
       /\ ~fetch.raised
       /\ \A k \in DOMAIN fetch.ends :
             (NaverFailed(fetch.ends[k]) \/ DartFailed(fetch.ends[k])) =>
                /\ fetch.status[k] = "no_data"
                /\ FetchOrder[k] \notin fetch.lookup

\* C11 (amended): a failed request raises no error and contributes no
\* article; the ticker's status comes from the articles of the other source
\* alone, so it is no-data exactly when that source delivers none, and the
\* collection of the other tickers goes on.
C11_FailedRequestContributesNothing ==
    /\ fetch.pc \notin {"idle", "scored"} =>
          /\ ~fetch.raised
          /\ NaverFailed([naver |-> fetch.naverEnd]) => fetch.naver = << >>
          /\ DartFailed([dart |-> fetch.dartEnd]) => fetch.dart = << >>
    /\ fetch.pc = "scored" =>
          /\ ~fetch.raised
          /\ Len(fetch.ends) = Len(FetchOrder)
          /\ \A k \in DOMAIN fetch.ends :
                LET e == fetch.ends[k]
                    arts == fetch.articles[k]
                IN /\ NaverFailed(e) => \A j \in DOMAIN arts : arts[j].src = "dart"
                   /\ DartFailed(e) => \A j \in DOMAIN arts : arts[j].src = "naver"
                   /\ fetch.status[k] = SentimentStatus(Len(arts))
                   /\ (FetchOrder[k] \in fetch.lookup) = (Len(arts) >= news_min_articles)
                   /\ (NaverFailed(e) /\ e.dart # "ok") => fetch.status[k] = "no_data"

C11_Witness ==
    /\ fetch.pc = "scored"
    /\ fetch.ends[1].naver = "exhausted"
    /\ fetch.ends[1].gets = max_retries
    /\ fetch.ends[1].dart = "ok"
    /\ fetch.status[1] = "active"
    /\ fetch.ends[2].naver = "exhausted"
    /\ fetch.ends[2].dart = "exception"
    /\ fetch.status[2] = "no_data"

\* C20 (as stated): every external call carries a per-attempt timeout and a
\* call that meets a transient error (HTTP 429 included) is retried, at most
\* five times, before it gives up.
C20_TransientErrorRetriedUpToFive ==
    fetch.pc = "scored" =>
       \A k \in DOMAIN fetch.ends :
          LET e == fetch.ends[k]
          IN /\ e.gets <= 1 + 5
             /\ e.dartGets <= 1 + 5
             /\ (NaverFailed(e) /\ e.naverLast \in Transient) => e.gets > 1
             /\ (DartFailed(e) /\ e.dartLast \in Transient) => e.dartGets > 1

\* the requests and waits of the collection in progress
FetchBudget ==
    fetch.pc \in {"naver", "dart", "collect"} =>
       /\ \A i \in DOMAIN fetch.gets : fetch.gets[i] = NaverTimeout
       /\ \A i \in DOMAIN fetch.dartGets : fetch.dartGets[i] = DartTimeout
       /\ Len(fetch.gets) <= max_retries
       /\ Len(fetch.dartGets) <= 1
       /\ fetch.attempt = Len(fetch.sleeps)
       /\ \A i \in DOMAIN fetch.sleeps : fetch.sleeps[i] = 2 ^ (i - 1)
       /\ fetch.pc = "naver" => fetch.attempt < max_retries /\ Len(fetch.gets) = fetch.attempt
       /\ fetch.naverEnd = "exhausted" =>
             Len(fetch.sleeps) = max_retries /\ Len(fetch.gets) = max_retries
       /\ fetch.naverEnd \in {"ok", "http_error", "exception"} =>
             Len(fetch.gets) = Len(fetch.sleeps) + 1
       /\ fetch.naverEnd = "no_credentials" => Len(fetch.gets) = 0

\* C20 (amended): each request of the two collectors carries its timeout
\* (10 s search, 15 s disclosures); the search is retried only on a 429
\* response, after a wait of 2^attempt seconds, for at most three requests
\* in all; any other error of the search and every error of the disclosure
\* request ends the fetch at once with an empty result; every pass of the
\* retry loop raises the attempt counter, so the loop terminates.
C20_Only429RetriedThreeRequests ==
    /\ [] FetchBudget
    /\ [][(fetch.pc = "naver" /\ fetch'.pc = "naver")
             => fetch'.attempt = fetch.attempt + 1]_vars

C20_Witness ==
    /\ fetch.pc = "scored"
    /\ fetch.ends[1].naver = "exhausted"
    /\ fetch.ends[1].gets = max_retries
    /\ fetch.ends[1].dart = "exception"
    /\ fetch.ends[1].dartLast = "s429"
    /\ fetch.ends[1].dartGets = 1
    /\ fetch.ends[2].naver = "exception"
    /\ fetch.ends[2].naverLast = "timeout"
    /\ fetch.ends[2].gets = 2

(***************************************************************************)
(* Composite synthesis                                                     *)
(***************************************************************************)

\* the ticker has a sub-score on some axis: value (quant row), flow (whale
\* row), momentum (trend row with a percentile), forecast (simulation row),
\* sentiment (active news status)
HasSubScore(t) ==
    \/ HasRow(rows["quant"], t)
    \/ HasRow(rows["whale"], t)
    \/ HasRow(rows["trend"], t)
    \/ HasRow(rows["simulation"], t)
    \/ t \in sentimentLookup

\* C12: a completed run has exactly one composite row for every ticker with
\* at least one sub-score among value, flow, momentum, forecast and
\* sentiment, and none for a ticker without any.
C12_CompositeRowIffSomeSubScore ==
    pc = "done" =>
       \A t \in Range(tickers) :
          Cardinality({k \in DOMAIN rows["composite"] : rows["composite"][k].key = t})
             = IF HasSubScore(t) THEN 1 ELSE 0

\* C13: in every composite result the weights-used map sums to 1.0 when at
\* least one axis is available and to 0 when none is.
C13_WeightsUsedSumToOne ==
    kcall.fn = "compute_composite_score" =>
       SumOver(kcall.out.weights_used, Range(AxisKeys))
          = IF kcall.out.axes_available > 0 THEN 10000 ELSE 0

\* C13 (as the code has it): each weight is rounded to four decimals, so the
\* weights-used map sums to 1.0 within 0.0001 when at least one axis is
\* available, and to exactly 0 when none is.
C13_WeightsUsedSumWithinRounding ==
    kcall.fn = "compute_composite_score" =>
       LET total == SumOver(kcall.out.weights_used, Range(AxisKeys))
       IN IF kcall.out.axes_available > 0
          THEN total \in 9999..10001
          ELSE total = 0

\* three axes available and the rounded weights sum to 0.9999
C13_Witness ==
    /\ kcall.fn = "compute_composite_score"
    /\ kcall.out.axes_available = 3
    /\ SumOver(kcall.out.weights_used, Range(AxisKeys)) = 9999

\* C14: with K the number of known signals, the confluence tier is the first
\* matching rule of: T5 when K >= 3 and all K are strong_buy (or all
\* strong_sell); T4 when K >= 3 and all K are buy-side (or all sell-side); T3
\* when K >= 3 and at least two signals are strong in one direction with at
\* most one contrary signal; T2 when exactly one signal is strong and none is
\* contrary; otherwise T1.
C14_ConfluenceTierByCascade ==
    kcall.fn = "detect_confluence" =>
       LET sigs == kcall.out.signals
           K  == CountIn(sigs, {"strong_buy", "buy", "neutral", "sell", "strong_sell"})
           sb == CountIn(sigs, {"strong_buy"})
           ss == CountIn(sigs, {"strong_sell"})
           b  == CountIn(sigs, {"strong_buy", "buy"})
           s  == CountIn(sigs, {"strong_sell", "sell"})
           claimed ==
              IF K >= 3 /\ (sb = K \/ ss = K) THEN 5
              ELSE IF K >= 3 /\ (b = K \/ s = K) THEN 4
              ELSE IF K >= 3 /\ ((sb >= 2 /\ s <= 1) \/ (ss >= 2 /\ b <= 1)) THEN 3
              ELSE IF (sb = 1 /\ ss = 0 /\ s = 0) \/ (ss = 1 /\ sb = 0 /\ b = 0) THEN 2
              ELSE 1
       IN kcall.out.confluence_tier = claimed

(***************************************************************************)
(* RS percentile                                                           *)
(***************************************************************************)

\* rows of the latest percentile pass whose 20-day RS is not None
RankedRows == {k \in DOMAIN kcall.out : kcall.out[k].val.rs >= 0}

\* number of ranked rows whose RS is strictly below that of row k
BelowCount(k) == Cardinality({j \in RankedRows : kcall.out[j].val.rs < kcall.out[k].val.rs})

C16_PercentileMonotoneInRs ==
    kcall.fn = "fill_percentiles" =>
       \A a, b \in RankedRows :
          kcall.out[a].val.rs <= kcall.out[b].val.rs
             => kcall.out[a].val.pct <= kcall.out[b].val.pct

\* a pass where the stronger row comes first, a weaker one later, and a row
\* without RS is present
C16_Witness ==
    /\ kcall.fn = "fill_percentiles"
    /\ \E a, b \in RankedRows :
          /\ a > b
          /\ kcall.out[a].val.rs < kcall.out[b].val.rs
          /\ kcall.out[a].val.pct < kcall.out[b].val.pct
    /\ \E k \in DOMAIN kcall.out : k \notin RankedRows

(***************************************************************************)
(* Whale score                                                             *)
(***************************************************************************)

\* investor types of the latest call with at least one recorded value in the
\* window
TypesWithData ==
    {t \in WHALE_INVESTOR_TYPES :
        \E d \in 1..Len(kcall.investor_data) : kcall.investor_data[d][t] # Nothing}

\* C17: the whale score equals 0.5 * max(S) + 0.5 * mean(S), S the sub-scores
\* of the investor classes that have data in the window; a class whose
\* recorded net flows are all zero has data and enters S with its sub-score
\* of 0, a class with no recorded values is left out.
C17_WhaleScoreOverClassesWithData ==
    kcall.fn = "compute_whale_score" =>
       kcall.out.whale_score = HalfMaxHalfMean(kcall.out.components, TypesWithData)

(***************************************************************************)
(* Kernels on empty and short input                                        *)
(***************************************************************************)

\* the documented minimum input length of a kernel; simulate_gbm documents
\* none, so only the empty array is below it
DocumentedMinimum(k) == IF k = "simulate_gbm" THEN 1 ELSE KernelGuard[k]

\* C18: every numeric kernel, given an empty input array or one shorter than
\* its documented minimum, returns its documented neutral result and raises
\* no error.
C18_ShortInputGivesNeutralResult ==
    (kcall.fn = "kernel_on_array" /\ kcall.len < DocumentedMinimum(kcall.kernel))
       => kcall.out = "neutral"

(***************************************************************************)
(* Batched LLM path                                                        *)
(***************************************************************************)

\* C19: in the batched LLM path, polling stops once the hard ceiling (30
\* minutes) is reached; the batch is then abandoned and each of its items
\* ends with its local-classifier result.
C19_TimedOutItemsGetLocalResult ==
    /\ llm.pc = "polling" => llm.elapsed <= max_wait
    /\ (llm.pc = "done" /\ llm.timed_out) =>
          \A i \in llm.llm_pending : llm.final[i] = "bert"

\* C19 (as the code has it): polling stops once the waited time reaches the
\* ceiling, after max_wait / poll_interval polls; the batch result is then
\* empty, every item of the batch is re-sent as a single LLM call, and an
\* item ends with that call's result when there is one, else with its
\* local-classifier result when there is one, else with the neutral record.
C19_TimedOutItemsAreResent ==
    /\ llm.pc = "polling" =>
          /\ llm.elapsed <= max_wait
          /\ llm.polls * poll_interval = llm.elapsed
    /\ (llm.pc \in {"concurrent", "done"} /\ llm.timed_out) =>
          llm.polls * poll_interval = max_wait
    /\ (llm.pc = "done" /\ llm.timed_out) =>
          /\ llm.resent = llm.llm_pending
          /\ \A i \in llm.llm_pending :
                llm.final[i] = IF i \in llm.llm_results THEN "llm"
                               ELSE IF llm.bert_results[i] THEN "bert"
                               ELSE "fallback"

\* a batch that timed out, one item ending with the result of its single LLM
\* call and one with its local-classifier result
C19_Witness ==
    /\ llm.pc = "done"
    /\ llm.timed_out
    /\ \E i, j \in llm.llm_pending : llm.final[i] = "llm" /\ llm.final[j] = "bert"

(***************************************************************************)
(* News stage concurrency                                                  *)
(***************************************************************************)

\* C21: during the news stage at most 3 per-ticker fetch tasks are in flight
\* at any moment, for any number of tickers.
C21_AtMostThreeFetchTasksInFlight ==
    gather.pc = "gathering" => Cardinality(Holders(gather)) <= 3

\* three tasks in flight while a fourth waits for a slot
C21_Witness ==
    /\ gather.pc = "gathering"
    /\ Cardinality(Holders(gather)) = 3
    /\ \E t \in FetchTasks : gather.task[t] = "waiting"

AxisFailed ==
    {t \in Range(tickers) :
        <<"pipeline", t>> \in warnings /\ inp[t].fault \in Range(PipelineAxes)}

\* C23: when computing one axis for a ticker raises inside the per-ticker
\* pipeline, the ticker is skipped for that axis only: rows for its other
\* axes, those computed before the failing axis and those due after it, are
\* still produced.
C23_OnlyFailingAxisSkipped ==
    \A t \in AxisFailed :
       \A a \in Range(PipelineAxes) \ {inp[t].fault} :
          AxisHasData(a, inp[t]) => HasRow(rows[a], t)

\* C23 (as the code has it): the six axes share one try block, so the rows of
\* the axes before the failing one are kept and the failing axis, every axis
\* after it and the investor-data accumulation are skipped for the ticker.
C23_FailingAxisAndLaterSkipped ==
    \A t \in AxisFailed :
       /\ \A a \in Range(PipelineAxes) :
             HasRow(rows[a], t) <=>
                (AxisPos(a) < AxisPos(inp[t].fault) /\ AxisHasData(a, inp[t]))
       /\ t \notin investorAcc

\* the trend axis raised: the quant row is there, the risk row is not although
\* the ticker has the prices for it
C23_Witness ==
    \E t \in AxisFailed :
       /\ inp[t].fault = "trend"
       /\ HasRow(rows["quant"], t)
       /\ AxisHasData("risk", inp[t])
       /\ ~HasRow(rows["risk"], t)

\* the stage-1 confidence recorded for article i of the latest
\* score_articles call, in thousandths
StageOneConfidence(i) == RoundHalfEven(kcall.articles[i].score, 10)

\* the articles of the latest call that the classifier gave a confidence
ClassifiedArticles ==
    {i \in DOMAIN kcall.articles :
        /\ kcall.articles[i].source_name # "DART"
        /\ kcall.articles[i].has_text
        /\ kcall.pipe = "ok"}

\* C24 as stated: every non-pre-scored article whose stage-1 confidence is
\* below the threshold is escalated to the LLM, and no article at or above
\* the threshold is
C24_LowConfidenceAlwaysEscalated ==
    kcall.fn = "score_articles" =>
       \A i \in ClassifiedArticles :
          kcall.out.per[i].escalated <=> StageOneConfidence(i) < 700

\* C24 as the code has it: an article is escalated exactly when its stage-1
\* confidence is below the threshold, an Anthropic API key is configured, and
\* it is within the escalation cap when one is set (the lowest-confidence
\* articles first); without a key no article is escalated
C24_LowConfidenceEscalatedWhenKeyed ==
    kcall.fn = "score_articles" =>
       \A i \in ClassifiedArticles :
          LET low == {j \in ClassifiedArticles : StageOneConfidence(j) < 700}
              ahead == {j \in low :
                          \/ StageOneConfidence(j) < StageOneConfidence(i)
                          \/ (StageOneConfidence(j) = StageOneConfidence(i) /\ j < i)}
              cap == kcall.max_llm_escalation
          IN kcall.out.per[i].escalated <=>
                /\ i \in low
                /\ kcall.anthropic_api_key
                /\ (cap = 0 \/ Cardinality(ahead) < cap)

\* a keyed call in which an article rounded up to the threshold stays local
\* and a low-confidence one is escalated
C24_Witness ==
    /\ kcall.fn = "score_articles"
    /\ kcall.anthropic_api_key
    /\ \E i, j \in ClassifiedArticles :
          /\ kcall.articles[i].score = 6996
          /\ ~kcall.out.per[i].escalated
          /\ kcall.articles[j].score = 6000
          /\ kcall.out.per[j].escalated

\* C26: disclosure articles, pre-scored as rule-based neutral with
\* confidence 1.0, are never sent to the classifier or to the LLM, and
\* score_articles returns them with their sentiment fields unchanged
C26_DisclosuresBypassScoring ==
    kcall.fn = "score_articles" =>
       \A i \in DOMAIN kcall.articles :
          kcall.articles[i].source_name = "DART" =>
             /\ ~kcall.out.per[i].classified
             /\ ~kcall.out.per[i].escalated
             /\ kcall.out.per[i].sentiment = kcall.articles[i].sentiment
             /\ kcall.out.per[i].sentiment[1].scoring_method = "rule"
             /\ kcall.out.per[i].sentiment[1].sentiment_label = "neutral"
             /\ kcall.out.per[i].sentiment[1].sentiment_confidence = 1000
             /\ \E k \in DOMAIN kcall.out.order : kcall.out.order[k] = i

\* a call that scores a disclosure next to an article the classifier and
\* the LLM both work on
C26_Witness ==
    /\ kcall.fn = "score_articles"
    /\ \E i, j \in DOMAIN kcall.articles :
          /\ kcall.articles[i].source_name = "DART"
          /\ kcall.out.per[i].sentiment = DartDisclosure.sentiment
          /\ kcall.out.per[j].classified
          /\ kcall.out.per[j].escalated
          /\ kcall.out.per[j].sentiment[1].scoring_method = "llm"

\* C25: after collection no two of a ticker's article records share the
\* same source_url, so the rows handed to the persister hold at most one row
\* per (ticker, source_url)
C25_OneArticlePerTickerAndUrl ==
    fetch.pc # "idle" =>
       \A k \in DOMAIN fetch.articles :
          \A i, j \in DOMAIN fetch.articles[k] :
             i # j => fetch.articles[k][i].url # fetch.articles[k][j].url

\* the scoring calls of the process that ran the model load
LoadingCalls == {k \in DOMAIN bert.log : bert.log[k].loading}

\* the scoring calls whose load gave an instance
LoadedCalls == {k \in LoadingCalls : bert.log[k].returned # 0}

\* the scoring calls that asked for the pipeline
ModelCalls == {k \in DOMAIN bert.log : bert.log[k].uses_model}

\* C27 as stated: across any sequence of scoring calls the model load is
\* performed at most once, on first use, and every later call reuses that
\* instance
C27_ModelLoadedOnceOnFirstUse ==
    /\ Cardinality(LoadingCalls) <= 1
    /\ \A k \in LoadingCalls :
          /\ \A j \in ModelCalls : j >= k
          /\ \A j \in ModelCalls : j > k => bert.log[j].returned = bert.log[k].returned

\* C27 as the code has it: at most one load succeeds; every call after it
\* reuses that instance without loading; every call before it ran a load
\* that failed, so a failed load is repeated by the next scoring call
C27_ModelLoadedOnceOnFirstSuccess ==
    /\ Cardinality(LoadedCalls) <= 1
    /\ \A k \in LoadedCalls :
          \A j \in ModelCalls :
             /\ j > k => ~bert.log[j].loading /\ bert.log[j].returned = bert.log[k].returned
             /\ j < k => bert.log[j].loading /\ bert.log[j].returned = 0
    /\ LoadedCalls = {} =>
          \A j \in ModelCalls : bert.log[j].loading /\ bert.log[j].returned = 0

\* a load that failed, then one that succeeded, then a call that reused the
\* instance
C27_Witness ==
    \E i, j, k \in ModelCalls :
       /\ i < j /\ j < k
       /\ bert.log[i].loading /\ bert.log[i].returned = 0
       /\ bert.log[j].loading /\ bert.log[j].returned = j
       /\ ~bert.log[k].loading /\ bert.log[k].returned = j

SectorRowsWith(t, sig) ==
    {k \in DOMAIN kcall.rows :
        kcall.rows[k].key[1] = SectorOf(t) /\ kcall.rows[k].val.signal = sig}

\* C29: after all sector-flow rows have been applied every ticker's bonus
\* lies between 0 and 15: each strong_accumulation row of its sector adds
\* 15, each mild_accumulation row adds 5, capped at 15 in total
C29_SectorFlowBonusCappedSum ==
    kcall.fn = "sector_flow_bonus" =>
       \A t \in Tickers :
          LET total == 15 * Cardinality(SectorRowsWith(t, "strong_accumulation"))
                       + 5 * Cardinality(SectorRowsWith(t, "mild_accumulation"))
          IN /\ kcall.out[t] >= 0
             /\ kcall.out[t] <= 15
             /\ kcall.out[t] = IF total > 15 THEN 15 ELSE total

\* one ticker's sector has a strong and a mild row (20 before the cap) and
\* the other's has two mild rows
C29_Witness ==
    /\ kcall.fn = "sector_flow_bonus"
    /\ \E t, u \in Tickers :
          /\ Cardinality(SectorRowsWith(t, "strong_accumulation")) = 1
          /\ Cardinality(SectorRowsWith(t, "mild_accumulation")) = 1
          /\ kcall.out[t] = 15
          /\ Cardinality(SectorRowsWith(u, "mild_accumulation")) = 2
          /\ kcall.out[u] = 10

\* C30: after a collector run for a (collection type, date) raised, the
\* committed collection-log row of the pair has status "failed" and carries
\* the error message; no finished run leaves the row in status "running"
C30_FailedRunLeavesFailedLogRow ==
    coll.pc = "idle" =>
       /\ \A key \in LogKeys : coll.committed[key].status # "running"
       /\ coll.last.outcome = "raised" =>
             /\ coll.committed[coll.last.key].status = "failed"
             /\ coll.committed[coll.last.key].error_message = coll.last.error

====
